---- MODULE Spec2Model ----
(***************************************************************************)
(* A state-machine model of the three MoviePilot plugins of this           *)
(* repository:                                                             *)
(*   - DoubanRankPlus   (src/plugins/doubanrankplus/__init__.py), "rk"     *)
(*   - EpisodeNoExist   (src/plugins/episodenoexist/__init__.py), "ep"     *)
(*   - MigrateSub       (src/plugins/migratesub/__init__.py),     "mg"     *)
(* Each plugin has its own specification (SpecRank, SpecEpisode,           *)
(* SpecMigrate); the variables of the other two plugins stay unchanged.    *)
(* Host services (recognition, Douban API, TMDB, media server, ORM) are    *)
(* the environment: their answers are inputs drawn from small sets.        *)
(***************************************************************************)
EXTENDS Integers, Sequences, FiniteSets, TLC

VARIABLES
    plugin,           \* the plugin this behaviour exercises
    \* ---- DoubanRankPlus -------------------------------------------------
    rk_cfg,           \* the plugin's configuration fields (self._xxx, settings)
    rk_saved,         \* the configuration the host has stored for the plugin
    rk_clearflag,     \* self._clearflag
    rk_clearflag_unrecognized, \* self._clearflag_unrecognized
    rk_data,          \* the persisted blob get_data/save_data("history")
    rk_pc,            \* position of the refresh job: "idle" | "feed" | "item"
    rk_history,       \* __refresh_rss local: history
    rk_unique_flags,  \* __refresh_rss local: unique_flags
    rk_addr_list,     \* __refresh_rss local: addr_list
    rk_addr_index,    \* __refresh_rss local: position in addr_list (1-based)
    rk_addr_bound,    \* whether the local name addr has been assigned
    rk_paths,         \* __refresh_rss local: customize_save_paths is truthy
    rk_n_items,       \* __refresh_rss local: len(rss_infos) of the current feed
    rk_item_index,    \* __refresh_rss local: position in rss_infos (1-based)
    rk_last_limit,    \* douban_last_ip_rate_limit_datetime (NoTime = None)
    rk_limit_times,   \* douban_ip_rate_limit_times
    now,              \* the clock, in seconds since the run's first rate limit
    \* counters that bound the exploration
    ticks,            \* clock advances so far
    rk_runs,          \* refresh runs started so far
    rk_inits,         \* init_plugin calls so far
    rk_steps,         \* feed items processed so far
    \* history variables of the rank plugin (observations, not program state)
    rk_last,          \* what the last action did
    rk_feedlog,       \* per address of the current run: what happened to it
    rk_limit_seen,    \* clock time of the last rate-limit answer (NoTime: none)
    \* ---- EpisodeNoExist -------------------------------------------------
    ep_cfg,           \* the plugin's configuration fields
    ep_clearflag,     \* self._clearflag
    ep_data,          \* the persisted blob get_data/save_data("history")
    ep_pc,            \* position of the check job: "idle" | "scan"
    ep_history,       \* __get_mediaserver_tv_info local: history
    ep_subs,          \* the host's Subscribe table: rows per season of the show
    ep_runs,          \* check runs started so far
    ep_inits,         \* init_plugin calls so far
    ep_steps,         \* library items checked so far
    ep_last,          \* history variable: what the last action did
    \* ---- MigrateSub -----------------------------------------------------
    mg_cfg,           \* the plugin's configuration fields
    mg_scheduled,     \* the one-shot job is scheduled
    mg_subs,          \* the host's Subscribe table
    mg_sub_history,   \* the host's SubscribeHistory table
    mg_sites,         \* the host's Site table
    mg_pc,            \* position of the migration job: "idle" | "add"
    mg_left,          \* __start_migrate: items of ret_sub_list still to add
    mg_add_count,     \* __start_migrate local: add_count
    mg_runs,          \* migration runs started so far
    mg_inits,         \* init_plugin calls so far
    mg_last,          \* history variable: what the last action did
    \* ---- functions applied on their own ---------------------------------
    fn_call,          \* the call: the function and its arguments
    fn_result,        \* its result
    \* ---- the service side of a plugin: scheduler, stop flag, jobs ------
    sv_cfg,           \* self._enabled, self._onlyonce, self._cron
    sv_saved,         \* the configuration the host has stored
    sv_scheduler,     \* self._scheduler: "none" | "running"
    sv_event,         \* self._event.is_set()
    sv_job,           \* per job instance: "none" | "pending" | "running"
    sv_items,         \* per job instance: items processed so far
    sv_call,          \* the host call waiting in shutdown(): "none"|"init"|"stop"
    sv_services,      \* what get_service returned to the host last
    sv_inits,         \* init_plugin calls so far
    sv_fires,         \* cron firings so far
    sv_mark,          \* history variable: per job, the items it had processed
                      \* when stop_service was called during its run
    sv_last           \* history variable: what the last action did

\* the fields init_plugin sets
rk_conf_vars == <<rk_cfg, rk_saved, rk_clearflag, rk_clearflag_unrecognized>>
\* the locals of __refresh_rss
rk_job_vars == <<rk_pc, rk_history, rk_unique_flags, rk_addr_list, rk_addr_index,
                 rk_addr_bound, rk_paths, rk_n_items, rk_item_index,
                 rk_last_limit, rk_limit_times>>
rk_count_vars == <<ticks, rk_runs, rk_inits, rk_steps>>
rk_obs_vars == <<rk_last, rk_feedlog, rk_limit_seen>>

rk_vars == <<rk_conf_vars, rk_data, rk_job_vars, now, rk_count_vars, rk_obs_vars>>

ep_vars == <<ep_cfg, ep_clearflag, ep_data, ep_pc, ep_history, ep_subs, ep_runs,
             ep_inits, ep_steps, ep_last>>

mg_vars == <<mg_cfg, mg_scheduled, mg_subs, mg_sub_history, mg_sites, mg_pc,
             mg_left, mg_add_count, mg_runs, mg_inits, mg_last>>

fn_vars == <<fn_call, fn_result>>

sv_vars == <<sv_cfg, sv_saved, sv_scheduler, sv_event, sv_job, sv_items, sv_call,
             sv_services, sv_inits, sv_fires, sv_mark, sv_last>>

vars == <<plugin, rk_vars, ep_vars, mg_vars, fn_vars, sv_vars>>

\* a step of one plugin leaves the others alone
RankOnly ==
    plugin = "rank" /\ UNCHANGED <<plugin, ep_vars, mg_vars, fn_vars, sv_vars>>
EpOnly ==
    plugin = "episode" /\ UNCHANGED <<plugin, rk_vars, mg_vars, fn_vars, sv_vars>>
MgOnly ==
    plugin = "migrate" /\ UNCHANGED <<plugin, rk_vars, ep_vars, fn_vars, sv_vars>>
FnOnly == UNCHANGED <<plugin, rk_vars, ep_vars, mg_vars, sv_vars>>
SvOnly == UNCHANGED <<plugin, rk_vars, ep_vars, mg_vars, fn_vars>>

-----------------------------------------------------------------------------
(* Bounds of the model *)
MaxItems == 2
MaxRuns == 2
MaxTicks == 1
MaxInits == 2
MaxSteps == 2
MaxEpisodes == 3

-----------------------------------------------------------------------------
(* Python values *)
NoneVal == "<None>"
NoTime == -1

\* str(x) / f"{x}": None is rendered as the text None
Str(x) == IF x = NoneVal THEN "None" ELSE x

\* truth value of an optional string
Truthy(s) == s # NoneVal /\ s # ""

\* x or default
OrElse(x, default) == IF Truthy(x) THEN x ELSE default

Range(s) == {s[i] : i \in 1..Len(s)}

\* settings.API_TOKEN and the tokens callers present
API_TOKEN == "token"
Tokens == {API_TOKEN, "wrong"}

-----------------------------------------------------------------------------
(* DoubanRankPlus: constants of the code *)

\* class Status
UNRECOGNIZED == "UNRECOGNIZED"
UNCATEGORIZED == "UNCATEGORIZED"
YEAR_NOT_MATCH == "YEAR_NOT_MATCH"
RATING_NOT_MATCH == "RATING_NOT_MATCH"
MEDIA_EXISTS == "MEDIA_EXISTS"
SUBSCRIPTION_EXISTS == "SUBSCRIPTION_EXISTS"
SUBSCRIPTION_ADDED == "SUBSCRIPTION_ADDED"

\* the cooldown after a Douban rate limit, in seconds
RateLimitWindow == 4200
\* seconds in a day: timedelta.seconds is the remainder modulo a day
SecondsPerDay == 86400

\* plugin_config_prefix
RankPrefix == "doubanrankplus_"

\* _douban_address.get(rank): None for a rank that is not a key
\* An address string is modelled by its ";"-separated pieces, each piece by
\* its "#"-separated parts; None is the empty sequence of pieces and the
\* empty string is one piece with one empty part.
NoneAddr == <<>>
EmptyAddr == << <<"">> >>
DoubanAddress(rank) ==
    IF rank = "movie-weekly" THEN << <<"https://rsshub.app/douban/movie/weekly">> >>
    ELSE NoneAddr

AddrFalsy(a) == a = NoneAddr \/ a = EmptyAddr

\* timedelta.seconds of a non-negative difference of two clock readings
TimedeltaSeconds(later, earlier) == (later - earlier) % SecondsPerDay

\* unique_flag = f"{prefix}{title}_{year}_(DB:{douban_id})"
UniqueFlag(title, year, douban_id) ==
    <<RankPrefix, title, "_", Str(year), "_(DB:", Str(douban_id), ")">>

\* a mutant of AlreadyProcessed: the lookup never finds the key
AlreadyProcessed_Never(unique_flag, unique_flags) == FALSE

\* line 1117: if unique_flag in unique_flags
AlreadyProcessed(unique_flag, unique_flags) == unique_flag \in unique_flags

\* __get_addr_save_paths: ok = FALSE when an index is out of range
GetAddrSavePaths(a) ==
    IF Len(a) = 1
    THEN [ok |-> TRUE, addr |-> a[1], has_paths |-> FALSE,
          paths |-> [movie |-> "", tv |-> "", anime |-> ""]]
    ELSE LET str_list == SelectSeq(a, LAMBDA p : p # <<"">>)
             failed == [ok |-> FALSE, addr |-> <<"">>, has_paths |-> FALSE,
                        paths |-> [movie |-> "", tv |-> "", anime |-> ""]]
         IN  IF Len(str_list) < 2 THEN failed
             ELSE LET csp == str_list[2]
                  IN  IF Len(csp) >= 2
                      THEN IF Len(csp) < 3 THEN failed
                           ELSE [ok |-> TRUE, addr |-> str_list[1], has_paths |-> TRUE,
                                 paths |-> [movie |-> csp[1], tv |-> csp[2],
                                            anime |-> OrElse(csp[3], csp[2])]]
                      ELSE [ok |-> TRUE, addr |-> str_list[1], has_paths |-> TRUE,
                            paths |-> [movie |-> csp[1], tv |-> csp[1],
                                       anime |-> csp[1]]]

\* a mutant of HistoryUnrecognizedPayload: the entry does not tell that the
\* media was not recognised
HistoryUnrecognizedPayload_Uncategorized(title, unique, year, doubanid) ==
    [title |-> title, unique |-> unique, status |-> UNCATEGORIZED,
     type |-> "UNKNOWN", year |-> OrElse(year, "0"), tmdbid |-> "0",
     doubanid |-> OrElse(doubanid, "0")]

\* __get_history_unrecognized_payload
HistoryUnrecognizedPayload(title, unique, year, doubanid) ==
    [title |-> title, unique |-> unique, status |-> UNRECOGNIZED,
     type |-> "UNKNOWN", year |-> OrElse(year, "0"), tmdbid |-> "0",
     doubanid |-> OrElse(doubanid, "0")]

\* the history entry of a recognised media
HistoryPayload(title, unique, media, douban_id, status) ==
    [title |-> title, unique |-> unique, status |-> status,
     type |-> media.type, year |-> media.year, tmdbid |-> media.tmdb_id,
     doubanid |-> OrElse(douban_id, "0")]

\* a mutant of CheckAndAddSubscribe: the rating is tested before the year and
\* the subscription before the library
CheckAndAddSubscribe_RatingFirst(cfg, media, exist_flag, sub_exists) ==
    IF cfg.vote # 0 /\ media.vote_average < cfg.vote THEN RATING_NOT_MATCH
    ELSE IF cfg.release_year # 0 /\ media.year_int < cfg.release_year
    THEN YEAR_NOT_MATCH
    ELSE IF sub_exists THEN SUBSCRIPTION_EXISTS
    ELSE IF exist_flag THEN MEDIA_EXISTS
    ELSE SUBSCRIPTION_ADDED

\* __checke_and_add_subscribe: the status it returns; subscribechain.add is
\* called exactly when the status is SUBSCRIPTION_ADDED
CheckAndAddSubscribe(cfg, media, exist_flag, sub_exists) ==
    IF cfg.release_year # 0 /\ media.year_int < cfg.release_year THEN YEAR_NOT_MATCH
    ELSE IF cfg.vote # 0 /\ media.vote_average < cfg.vote THEN RATING_NOT_MATCH
    ELSE IF exist_flag THEN MEDIA_EXISTS
    ELSE IF sub_exists THEN SUBSCRIPTION_EXISTS
    ELSE SUBSCRIPTION_ADDED


-----------------------------------------------------------------------------
(* DoubanRankPlus: the environment *)

\* feed items as __get_rss_info returns them (begin_season is what
\* MetaInfo(title) parses from the title; 0 = None)
ItemA == [title |-> "A", year |-> "2020", doubanid |-> "100", mtype |-> "movie",
          begin_season |-> 0]
ItemB == [title |-> "B", year |-> NoneVal, doubanid |-> NoneVal, mtype |-> "",
          begin_season |-> 2]
ItemC == [title |-> "C", year |-> "2021", doubanid |-> "300", mtype |-> "tv",
          begin_season |-> 1]
ItemNoTitle == [title |-> "", year |-> "2020", doubanid |-> "400", mtype |-> "movie",
                begin_season |-> 0]
RssItems == {ItemA, ItemB, ItemC, ItemNoTitle}

\* what chain.recognize_media may return
NoMedia == [type |-> "NONE", year |-> "", year_int |-> 0, vote_average |-> 0,
            number_of_seasons |-> 0, tmdb_id |-> "0"]
TvMedia == [type |-> "TV", year |-> "2010", year_int |-> 2010, vote_average |-> 5,
            number_of_seasons |-> 2, tmdb_id |-> "22"]
Medias == {NoMedia, TvMedia}

\* the seasons of the recognised media the host holds a subscription for when
\* the processing of an item begins
SubscribedBefore == {{}, {1}, {1, 2}}

\* subscribechain.exists(mediainfo=mediainfo, meta=meta) of the host: the
\* subscription is looked up by the TMDB id and, when meta.begin_season is
\* set, by that season; without a season any subscription of the id counts
HostSubscribeExists(subscribed, begin_season) ==
    IF begin_season # 0 THEN begin_season \in subscribed ELSE subscribed # {}

\* answers of __get_tmdbinfo_by_doubanid: (tmdbinfo, False), (None, False),
\* (None, True)
DoubanAnswers == {"info", "none", "limit"}

\* where the processing of an item raises, if it does
RaisePoints == {"none", "recognize", "subscribe"}

\* The host's answers while one item is processed. An answer that is never
\* asked for (the media when recognition raises, the subscription answers
\* when nothing is recognised) is fixed to one value.
HostAnswers ==
    {h \in [dres : DoubanAnswers, media : Medias, exc : RaisePoints,
            exist_flag : BOOLEAN, subscribed : SubscribedBefore] :
        /\ h.exc = "recognize" => h.media = NoMedia
        /\ h.media = NoMedia =>
               h.exc # "subscribe" /\ ~h.exist_flag /\ h.subscribed = {}
        /\ h.exc = "subscribe" => ~h.exist_flag /\ h.subscribed = {}}

\* the time that may pass between two steps, in seconds
Deltas == {0, RateLimitWindow, RateLimitWindow + 1, SecondsPerDay}

\* address strings of the configuration
U1 == << <<"http://feed/1">> >>
U2 == << <<"http://feed/2">> >>
\* "http://feed/3;" : a separator with no save path after it
BadAddr == << <<"http://feed/3">>, <<"">> >>
\* "http://feed/4;/movie#/tv#" : three save paths, the last one empty
PathsAddr == << <<"http://feed/4">>, <<"/movie", "/tv", "">> >>

\* the class attributes of DoubanRankPlus (lines 116-132)
DefaultConfig ==
    [enabled |-> FALSE, onlyonce |-> FALSE, clear |-> FALSE,
     clear_unrecognized |-> FALSE, rss_addrs |-> <<>>, ranks |-> <<>>,
     release_year |-> 0, vote |-> 0, is_seasons_all |-> TRUE,
     is_exit_ip_rate_limit |-> FALSE, source |-> "themoviedb"]

BaseConfig == [DefaultConfig EXCEPT !.enabled = TRUE, !.rss_addrs = <<U1, U2>>]

\* the configurations the user may save
RankConfigs ==
    { BaseConfig,
      [BaseConfig EXCEPT !.rss_addrs = <<BadAddr, U1>>, !.clear = TRUE],
      [BaseConfig EXCEPT !.rss_addrs = <<U1, BadAddr>>, !.ranks = <<"bogus">>,
                         !.is_exit_ip_rate_limit = TRUE, !.onlyonce = TRUE],
      [BaseConfig EXCEPT !.rss_addrs = <<EmptyAddr, PathsAddr>>,
                         !.clear_unrecognized = TRUE, !.release_year = 2015,
                         !.vote = 6],
      [BaseConfig EXCEPT !.rss_addrs = <<>>, !.ranks = <<"movie-weekly">>,
                         !.source = "douban", !.is_seasons_all = FALSE] }

-----------------------------------------------------------------------------
(* DoubanRankPlus: observations *)

NoStep ==
    [act |-> "none", key |-> <<>>, recorded |-> FALSE, outcome |-> "",
     douban_called |-> FALSE, recog_called |-> FALSE, sub_adds |-> 0,
     appended |-> FALSE, limit_before |-> NoTime, has_doubanid |-> FALSE,
     more_items |-> FALSE, before |-> <<>>, apikey |-> "", limit_hit |-> FALSE,
     sub_seasons |-> <<>>, media |-> NoMedia, exist_flag |-> FALSE,
     subscribed |-> {}, begin_season |-> 0, status |-> "",
     empty_answer |-> "none", clear_asked |-> FALSE, reloaded |-> FALSE,
     clearflag_before |-> FALSE]

-----------------------------------------------------------------------------
(* DoubanRankPlus: init_plugin *)

\* init_plugin(config), lines 140-227: the fields are read from config, then
\* the one-shot switches are moved into the flags
RankInitPlugin(config) ==
    /\ RankOnly
    /\  LET started == config.enabled \/ config.onlyonce
           c1 == IF started /\ (config.onlyonce \/ config.clear)
                 THEN [config EXCEPT !.clear = FALSE] ELSE config
           c2 == IF started /\ (config.onlyonce \/ config.clear_unrecognized)
                 THEN [c1 EXCEPT !.clear_unrecognized = FALSE] ELSE c1
           c3 == IF started /\ (c2.onlyonce \/ c2.clear \/ c2.clear_unrecognized)
                 THEN [c2 EXCEPT !.onlyonce = FALSE] ELSE c2
       IN  /\ rk_pc = "idle"
           /\ rk_inits < MaxInits
           /\ rk_inits' = rk_inits + 1
           /\ rk_cfg' = c3
           \* the host stored config before the call; __update_config
           \* (line 227) replaces it by the fields as they are now
           /\ rk_saved' = IF started /\ (c2.onlyonce \/ c2.clear
                                         \/ c2.clear_unrecognized)
                          THEN c3 ELSE config
           /\ rk_clearflag' = IF started /\ (config.onlyonce \/ config.clear)
                              THEN config.clear ELSE rk_clearflag
           /\ rk_clearflag_unrecognized' =
                  IF started /\ (config.onlyonce \/ config.clear_unrecognized)
                  THEN config.clear_unrecognized ELSE rk_clearflag_unrecognized
           /\ rk_last' = [NoStep EXCEPT !.act = "init_plugin",
                                        !.clear_asked = config.enabled /\ config.clear,
                                        !.reloaded = (config = rk_saved),
                                        !.clearflag_before = rk_clearflag]
           /\ UNCHANGED <<rk_data, rk_job_vars, now, ticks, rk_runs, rk_steps,
                          rk_feedlog, rk_limit_seen>>

\* the host starts again and hands the plugin the configuration it has stored
RankReload ==
    /\ plugin = "rank"
    /\ RankInitPlugin(rk_saved)

-----------------------------------------------------------------------------
(* DoubanRankPlus: __refresh_rss, one action per loop step *)

\* addr_list = self._rss_addrs + [self._douban_address.get(rank) ...]
AddrList(cfg) ==
    cfg.rss_addrs \o [i \in 1..Len(cfg.ranks) |-> DoubanAddress(cfg.ranks[i])]

\* the set built from the history: {h.get("unique") for h in history}
UniqueFlagsOf(history) == {history[i].unique : i \in 1..Len(history)}

\* lines 1030-1067: the address list, the clear flags, the history is read
RankRefreshStart ==
    /\ RankOnly
    /\ rk_pc = "idle"
    /\ rk_runs < MaxRuns
    /\ rk_runs' = rk_runs + 1
    /\ LET addr_list == AddrList(rk_cfg)
           kept == SelectSeq(rk_data, LAMBDA h : h.status # UNRECOGNIZED)
           history == IF rk_clearflag THEN <<>>
                      ELSE IF rk_data # <<>> /\ rk_clearflag_unrecognized THEN kept
                      ELSE rk_data
       IN  IF addr_list = <<>>
           THEN /\ rk_last' = [NoStep EXCEPT !.act = "no_addr"]
                /\ UNCHANGED <<rk_conf_vars, rk_data, rk_job_vars, rk_feedlog>>
           ELSE /\ rk_clearflag' = FALSE
                /\ rk_clearflag_unrecognized' =
                       IF ~rk_clearflag /\ rk_data # <<>> THEN FALSE
                       ELSE rk_clearflag_unrecognized
                /\ rk_data' = history
                /\ rk_history' = history
                /\ rk_unique_flags' = UniqueFlagsOf(history)
                /\ rk_addr_list' = addr_list
                /\ rk_addr_index' = 1
                /\ rk_addr_bound' = FALSE
                /\ rk_pc' = "feed"
                /\ rk_paths' = FALSE
                /\ rk_n_items' = 0
                /\ rk_item_index' = 0
                /\ rk_last_limit' = NoTime
                /\ rk_limit_times' = 0
                /\ rk_feedlog' = <<>>
                /\ rk_last' = [NoStep EXCEPT !.act = "start",
                                             !.clearflag_before = rk_clearflag]
                /\ UNCHANGED <<rk_cfg, rk_saved>>
    /\ rk_limit_seen' = NoTime
    /\ UNCHANGED <<now, ticks, rk_inits, rk_steps>>

\* a mutant of FinishFeed: the history is not written when the feed ends
FinishFeed_NoSave(history, outcome) ==
    /\ rk_data' = rk_data
    /\ rk_history' = history
    /\ rk_pc' = "feed"
    /\ rk_addr_index' = rk_addr_index + 1
    /\ rk_n_items' = 0
    /\ rk_item_index' = 0
    /\ rk_feedlog' = Append(rk_feedlog, [index |-> rk_addr_index,
                                         outcome |-> outcome, saved |-> TRUE])

\* the finally clause of the per-address try (lines 1395-1399), then the
\* next address
FinishFeed(history, outcome) ==
    /\ rk_data' = history
    /\ rk_history' = history
    /\ rk_pc' = "feed"
    /\ rk_addr_index' = rk_addr_index + 1
    /\ rk_n_items' = 0
    /\ rk_item_index' = 0
    /\ rk_feedlog' = Append(rk_feedlog, [index |-> rk_addr_index,
                                         outcome |-> outcome, saved |-> TRUE])

\* lines 1069-1086: one address of the list up to its fetch. The fetch
\* returns n items (none on a network failure); the items themselves are
\* drawn when the loop reaches them.
RankFeedBegin ==
    /\ RankOnly
    /\ rk_pc = "feed"
    /\ rk_addr_index <= Len(rk_addr_list)
    /\ rk_last' = [NoStep EXCEPT !.act = "feed"]
    /\ LET a == rk_addr_list[rk_addr_index]
           r == GetAddrSavePaths(a)
       IN  IF AddrFalsy(a)
           THEN \* continue, outside the try
                /\ rk_addr_index' = rk_addr_index + 1
                /\ rk_feedlog' = Append(rk_feedlog, [index |-> rk_addr_index,
                                        outcome |-> "falsy", saved |-> FALSE])
                /\ UNCHANGED <<rk_data, rk_history, rk_pc, rk_n_items,
                               rk_item_index, rk_addr_bound, rk_paths>>
           ELSE IF ~r.ok
           THEN IF rk_addr_bound
                THEN \* the handlers log the previous feed's addr and save
                     /\ FinishFeed(rk_history, "parse_failed")
                     /\ UNCHANGED <<rk_addr_bound, rk_paths>>
                ELSE \* the handlers read the unbound name addr: the
                     \* UnboundLocalError leaves __refresh_rss before save_data
                     /\ rk_pc' = "idle"
                     /\ rk_feedlog' = Append(rk_feedlog, [index |-> rk_addr_index,
                                             outcome |-> "parse_failed",
                                             saved |-> FALSE])
                     /\ UNCHANGED <<rk_data, rk_history, rk_addr_index,
                                    rk_n_items, rk_item_index, rk_addr_bound,
                                    rk_paths>>
           ELSE /\ rk_addr_bound' = TRUE
                /\ rk_paths' = r.has_paths
                /\ \E n \in 0..MaxItems :
                      IF n = 0
                      THEN FinishFeed(rk_history, "fetch_empty")
                      ELSE /\ rk_n_items' = n
                           /\ rk_item_index' = 1
                           /\ rk_pc' = "item"
                           /\ UNCHANGED <<rk_data, rk_history, rk_addr_index,
                                          rk_feedlog>>
    /\ UNCHANGED <<rk_conf_vars, rk_unique_flags, rk_addr_list, rk_last_limit,
                   rk_limit_times, now, rk_count_vars, rk_limit_seen>>

\* line 1401: every address has been handled
RankRefreshEnd ==
    /\ RankOnly
    /\ rk_pc = "feed"
    /\ rk_addr_index > Len(rk_addr_list)
    /\ rk_pc' = "idle"
    /\ rk_last' = [NoStep EXCEPT !.act = "end"]
    /\ UNCHANGED <<rk_conf_vars, rk_data, rk_history, rk_unique_flags,
                   rk_addr_list, rk_addr_index, rk_addr_bound, rk_paths,
                   rk_n_items, rk_item_index, rk_last_limit, rk_limit_times,
                   now, rk_count_vars, rk_feedlog, rk_limit_seen>>

\* lines 1350-1361: seasons i..number_of_seasons are checked and subscribed in
\* turn. subscribed is the host's set of subscribed seasons, which an add
\* extends; seasons is the sequence of the seasons add was called for.
RECURSIVE SeasonLoop(_, _, _, _, _, _, _, _)
SeasonLoop(cfg, item, media, exist_flag, subscribed, i, status, seasons) ==
    IF i > media.number_of_seasons
    THEN [status |-> status, seasons |-> seasons]
    ELSE LET st == CheckAndAddSubscribe(cfg, media, exist_flag,
                       HostSubscribeExists(subscribed, item.begin_season))
             added == st = SUBSCRIPTION_ADDED
         IN  SeasonLoop(cfg, item, media, exist_flag,
                        IF added THEN subscribed \cup {i} ELSE subscribed,
                        i + 1,
                        IF item.begin_season = 0 \/ i = item.begin_season
                        THEN st ELSE status,
                        IF added THEN Append(seasons, i) ELSE seasons)

\* lines 1335-1339: the test that selects the loop over the seasons
AllSeasons(cfg, media) ==
    cfg.is_seasons_all /\ media.type = "TV" /\ media.number_of_seasons > 0

\* lines 1334-1368: the subscription calls for a recognised media and the
\* status that is recorded
SubscribeSeasons(cfg, item, media, exist_flag, subscribed) ==
    IF AllSeasons(cfg, media)
    THEN SeasonLoop(cfg, item, media, exist_flag, subscribed, 1, UNCATEGORIZED,
                    <<>>)
    ELSE LET st == CheckAndAddSubscribe(cfg, media, exist_flag,
                       HostSubscribeExists(subscribed, item.begin_season))
         IN  [status |-> st,
              seasons |-> IF st = SUBSCRIPTION_ADDED THEN <<item.begin_season>>
                          ELSE <<>>]

\* lines 1133-1143: the rate-limit timestamp is dropped once
\* (now - last).seconds exceeds the window
LimitAfterCheck(last, t) ==
    IF last # NoTime /\ TimedeltaSeconds(t, last) > RateLimitWindow THEN NoTime
    ELSE last

\* a mutant of ExitOnRateLimit: the run never ends at a rate limit
ExitOnRateLimit_Never(cfg) == FALSE

\* line 1192: if self._is_exit_ip_rate_limit
ExitOnRateLimit(cfg) == cfg.is_exit_ip_rate_limit

\* a mutant of HistoryAppend: the new entry is put in front
HistoryAppend_Front(history, history_payload) == <<history_payload>> \o history

\* history.append(history_payload)
HistoryAppend(history, history_payload) == Append(history, history_payload)

\* lines 1091-1391: what processing one feed item does, as a record:
\*   hist, flags, last_limit, times : the locals afterwards
\*   outcome : "notitle" | "dup" | "unrecognized" | "recorded" | "raised" | "exit"
\*   douban_called, recog_called, sub_adds, limit_hit : the calls made
ProcessItem(cfg, item, hist, flags, last, times, t, h) ==
    LET title == item.title
        douban_id == item.doubanid
        unique == UniqueFlag(title, item.year, douban_id)
        base == [hist |-> hist, flags |-> flags, last_limit |-> last,
                 times |-> times, outcome |-> "", douban_called |-> FALSE,
                 recog_called |-> FALSE, sub_adds |-> 0, limit_hit |-> FALSE,
                 sub_seasons |-> <<>>, status |-> ""]
        b1 == [base EXCEPT !.last_limit = LimitAfterCheck(last, t)]
        Raised(b) == [b EXCEPT !.outcome = "raised"]
        Unrecognized(b, did) ==
            [b EXCEPT !.hist = HistoryAppend(@, HistoryUnrecognizedPayload(
                                                    title, unique, item.year, did)),
                      !.flags = @ \cup {unique},
                      !.outcome = "unrecognized"]
        Recognized(b) ==
            LET s == SubscribeSeasons(cfg, item, h.media, h.exist_flag,
                                      h.subscribed)
            IN  IF h.exc = "subscribe" THEN Raised(b)
                ELSE [b EXCEPT !.hist = HistoryAppend(@, HistoryPayload(
                                                title, unique, h.media, douban_id,
                                                s.status)),
                               !.flags = @ \cup {unique},
                               !.sub_adds = Len(s.seasons),
                               !.sub_seasons = s.seasons,
                               !.status = s.status,
                               !.outcome = "recorded"]
        \* chain.recognize_media, then the entry
        Recognize(b, did) ==
            IF h.exc = "recognize" THEN Raised([b EXCEPT !.recog_called = TRUE])
            ELSE IF h.media = NoMedia
                 THEN Unrecognized([b EXCEPT !.recog_called = TRUE], did)
                 ELSE Recognized([b EXCEPT !.recog_called = TRUE])
    IN  IF ~Truthy(title) THEN [base EXCEPT !.outcome = "notitle"]
        ELSE IF AlreadyProcessed(unique, flags) THEN [base EXCEPT !.outcome = "dup"]
        ELSE IF Truthy(douban_id) /\ b1.last_limit = NoTime
        THEN IF cfg.source = "themoviedb"
             THEN LET b2 == [b1 EXCEPT !.douban_called = TRUE]
                  IN  IF h.exc = "recognize" THEN Raised(b2)
                      ELSE IF h.dres = "none" THEN Unrecognized(b2, douban_id)
                      ELSE IF h.dres = "limit"
                      THEN IF ExitOnRateLimit(cfg)
                           THEN [b2 EXCEPT !.outcome = "exit", !.limit_hit = TRUE]
                           ELSE Recognize([b2 EXCEPT !.times = @ + 1,
                                                     !.last_limit = t,
                                                     !.limit_hit = TRUE],
                                          NoneVal)
                      ELSE Recognize(b2, douban_id)
             ELSE Recognize(b1, douban_id)
        ELSE Recognize(b1, NoneVal)

\* one pass of the item loop (lines 1088-1391) with what follows it: the next
\* item, or the except/finally clauses and the next address. The clock may
\* have advanced since the previous step; the code only uses differences of
\* clock readings taken at and after a rate limit (lines 1134-1138, 1196), so
\* the clock is counted from the first rate limit of the run.
RankItemStep ==
    /\ RankOnly
    /\ rk_pc = "item"
    /\ rk_steps < MaxSteps
    /\ rk_steps' = rk_steps + 1
    /\ \E item \in RssItems, h \in HostAnswers, d \in Deltas :
          /\ d = 0 \/ (ticks < MaxTicks /\ rk_limit_seen # NoTime)
          /\ now' = now + d
          /\ ticks' = IF d = 0 THEN ticks ELSE ticks + 1
          /\ \E r \in {ProcessItem(rk_cfg, item, rk_history, rk_unique_flags,
                                   rk_last_limit, rk_limit_times, now + d, h)} :
             LET t == now + d
                 key == UniqueFlag(item.title, item.year, item.doubanid)
             IN  /\ rk_unique_flags' = r.flags
                 /\ rk_last_limit' = r.last_limit
                 /\ rk_limit_times' = r.times
                 /\ rk_limit_seen' = IF r.limit_hit THEN t ELSE rk_limit_seen
                 /\ rk_last' =
                        [act |-> "item", key |-> key,
                         recorded |-> key \in UniqueFlagsOf(rk_history)
                                              \cup UniqueFlagsOf(rk_data),
                         outcome |-> r.outcome,
                         douban_called |-> r.douban_called,
                         recog_called |-> r.recog_called,
                         sub_adds |-> r.sub_adds,
                         sub_seasons |-> r.sub_seasons,
                         status |-> r.status,
                         media |-> IF r.outcome = "recorded" THEN h.media
                                   ELSE NoMedia,
                         exist_flag |-> r.outcome = "recorded" /\ h.exist_flag,
                         subscribed |-> IF r.outcome = "recorded"
                                        THEN h.subscribed ELSE {},
                         begin_season |-> item.begin_season,
                         appended |-> Len(r.hist) > Len(rk_history),
                         limit_before |-> rk_limit_seen,
                         has_doubanid |-> Truthy(item.doubanid),
                         more_items |-> rk_item_index < rk_n_items,
                         before |-> <<>>, apikey |-> "",
                         clear_asked |-> FALSE, reloaded |-> FALSE,
                         clearflag_before |-> FALSE,
                         limit_hit |-> r.limit_hit,
                         \* the call of this item that came back empty
                         empty_answer |->
                             IF r.douban_called /\ h.exc # "recognize"
                                /\ h.dres = "none" THEN "douban"
                             ELSE IF r.recog_called /\ h.exc # "recognize"
                                     /\ h.media = NoMedia THEN "recognize"
                             ELSE "none"]
                 /\ IF r.outcome = "raised"
                    THEN \* except Exception, then finally
                         FinishFeed(r.hist, "raised")
                    ELSE IF r.outcome = "exit"
                    THEN \* return inside the try: finally, then out
                         /\ rk_data' = r.hist
                         /\ rk_history' = r.hist
                         /\ rk_pc' = "idle"
                         /\ rk_feedlog' = Append(rk_feedlog,
                                [index |-> rk_addr_index, outcome |-> "exit",
                                 saved |-> TRUE])
                         /\ UNCHANGED <<rk_addr_index, rk_n_items, rk_item_index>>
                    ELSE IF rk_item_index = rk_n_items
                    THEN FinishFeed(r.hist, "done")
                    ELSE /\ rk_history' = r.hist
                         /\ rk_item_index' = rk_item_index + 1
                         /\ UNCHANGED <<rk_data, rk_pc, rk_addr_index,
                                        rk_n_items, rk_feedlog>>
    /\ UNCHANGED <<rk_conf_vars, rk_addr_list, rk_addr_bound, rk_paths,
                   rk_runs, rk_inits>>

-----------------------------------------------------------------------------
(* DoubanRankPlus: the delete_history endpoint *)

\* the keys a caller may name; the key is in the history or not
RankKeys ==
    {UniqueFlag(i.title, i.year, i.doubanid) : i \in {ItemA}}

\* delete_history(key, apikey), lines 988-1002. The refresh job reads the
\* persisted history when it starts and writes it when a feed ends, so a call
\* that arrives while the items of a feed are processed has the effect of
\* one that arrives just before that feed: only the latter is generated.
RankDeleteHistory(key, apikey) ==
    /\ RankOnly
    /\ rk_pc # "item"
    /\ LET historys == rk_data
           outcome == IF apikey # API_TOKEN THEN "bad_token"
                      ELSE IF historys = <<>> THEN "no_history"
                      ELSE "success"
       IN  /\ rk_data' = IF outcome = "success"
                         THEN SelectSeq(historys, LAMBDA x : x.unique # key)
                         ELSE rk_data
           /\ rk_last' = [NoStep EXCEPT !.act = "delete_history", !.key = key,
                                        !.outcome = outcome, !.before = rk_data,
                                        !.apikey = apikey]
    /\ UNCHANGED <<rk_conf_vars, rk_job_vars, now, rk_count_vars, rk_feedlog,
                   rk_limit_seen>>

-----------------------------------------------------------------------------
(* EpisodeNoExist: constants of the code *)

\* class HistoryStatus (the members stand for their values)
HistoryStatus_ALL_EXIST == "ALL_EXIST"
HistoryStatus_ADDED_RSS == "ADDED_RSS"
HistoryStatus_NO_EXIST == "NO_EXIST"
HistoryStatus_FAILED == "FAILED"

\* class NoExistAction, by value
NoExistAction_ONLY_HISTORY == "ONLY_HISTORY"
NoExistAction_ADD_SUBSCRIBE == "ADD_SUBSCRIBE"
NoExistAction_SET_ALL_EXIST == "SET_ALL_EXIST"

\* class HistoryDataType: a member is an Enum object, its value is a str; the
\* two never compare equal
HistoryDataType_NOT_ALL_NO_EXIST == <<"enum", "NOT_ALL_NO_EXIST">>
HistoryDataTypeValue(name) == <<"str", name>>

\* the class attributes of EpisodeNoExist (lines 134-141)
EpDefaultConfig ==
    [enabled |-> FALSE, onlyonce |-> FALSE, clear |-> FALSE,
     no_exist_action |-> NoExistAction_ONLY_HISTORY,
     history_type |-> HistoryDataTypeValue("LATEST")]

\* {"item_unique_flags": [], "details": {}}
EmptyDetails == [k \in {} |-> {}]
EmptyHistory == [item_unique_flags |-> <<>>, details |-> EmptyDetails]

\* the persisted blob: stored = FALSE is a missing or empty ("") blob
NoHistoryData == [stored |-> FALSE, value |-> EmptyHistory]
Stored(history) == [stored |-> TRUE, value |-> history]

\* season_episode_no_exist_info = None
NoSeasonInfo == [s \in {} |-> {}]

-----------------------------------------------------------------------------
(* EpisodeNoExist: __filter_episodes and __get_item_no_exist_info *)

\* an air_date string "YYYY-MM-DD" is the triple of its fields; None or ""
\* is the empty tuple
NoDate == <<>>

\* datetime.strptime(air_date, "%Y-%m-%d"): midnight of that day
Strptime(air_date) ==
    [year |-> air_date[1], month |-> air_date[2], day |-> air_date[3], hour |-> 0]

\* datetime.date()
DateOf(dt) == [year |-> dt.year, month |-> dt.month, day |-> dt.day]

\* date.__lt__
DateLess(a, b) ==
    \/ a.year < b.year
    \/ a.year = b.year /\ a.month < b.month
    \/ a.year = b.year /\ a.month = b.month /\ a.day < b.day

\* a mutant of AirDateBefore: an episode airing today counts as aired
AirDateBefore_OrToday(air_date, current_time) ==
    ~DateLess(DateOf(current_time), DateOf(Strptime(air_date)))

\* line 691: air_date.date() < current_time.date()
AirDateBefore(air_date, current_time) ==
    DateLess(DateOf(Strptime(air_date)), DateOf(current_time))

\* __filter_episodes: the episode numbers, in TMDB's order, of the episodes
\* with an air date before the current date
FilterEpisodes(episodes_info, current_time) ==
    LET kept == SelectSeq(episodes_info,
                          LAMBDA episode : episode.air_date # NoDate
                                           /\ AirDateBefore(episode.air_date,
                                                            current_time))
    IN  [i \in 1..Len(kept) |-> kept[i].episode_number]

\* a mutant of LackEpisode: the difference is taken the wrong way round
LackEpisode_Reversed(filted_episodes, exist_episode) ==
    Range(exist_episode) \ Range(filted_episodes)

\* line 618: set(filted_episodes).difference(set(exist_episode)); the list
\* made of it has no specified order and is kept as a set
LackEpisode(filted_episodes, exist_episode) ==
    Range(filted_episodes) \ Range(exist_episode)

\* a mutant of SeasonSubscribed: the subscription is never found
SeasonSubscribed_Never(subscribed, season) == FALSE

\* subscribechain.subscribeoper.exists(tmdbid, season=season), answered by
\* the host: subscribed is the set of seasons for which it answers True
SeasonSubscribed(subscribed, season) == season \in subscribed

\* EpisodeNoExistInfo(...).dict()
EpisodeNoExistInfo(season, episode_no_exist, episode_total) ==
    [season |-> season, episode_no_exist |-> episode_no_exist,
     episode_total |-> episode_total]

\* the season loop continues without an entry
NoEntry == [season |-> -1, episode_no_exist |-> {}, episode_total |-> 0]

\* exist_season_info.get(season): None for a season without a key
ExistEpisode(exist_season_info, season) ==
    IF season \in DOMAIN exist_season_info THEN exist_season_info[season] ELSE <<>>

\* lines 560-645, the body of either season loop for one season: NoEntry when
\* the loop continues without an entry, else the entry
SeasonEntry(exist_season_info, season, filted_episodes, subscribed) ==
    LET episode_total == Len(filted_episodes)
        exist_episode == ExistEpisode(exist_season_info, season)
        lack_episode == LackEpisode(filted_episodes, exist_episode)
    IN  IF filted_episodes = <<>> THEN NoEntry
        ELSE IF DOMAIN exist_season_info = {}
        THEN IF SeasonSubscribed(subscribed, season) THEN NoEntry
             ELSE EpisodeNoExistInfo(season, {}, episode_total)
        ELSE IF exist_episode # <<>>
        THEN IF lack_episode = {} THEN NoEntry
             ELSE IF SeasonSubscribed(subscribed, season) THEN NoEntry
             ELSE EpisodeNoExistInfo(season, lack_episode, episode_total)
        ELSE IF SeasonSubscribed(subscribed, season) THEN NoEntry
             ELSE EpisodeNoExistInfo(season, {}, episode_total)

\* __get_item_no_exist_info(item_dict) with the host's answers:
\*   tmdbinfo   : recognize_media's answer ([recognized, seasons])
\*   episodes   : tmdb_episodes per season
\*   subscribed : the seasons the host reports as subscribed
\* The result is (ok, tv_no_exist_info).
GetItemNoExistInfo(item_dict, tmdbinfo, episodes, subscribed, current_time) ==
    LET title == OrElse(item_dict.title, OrElse(item_dict.original_title, "unknown"))
        info0 == [title |-> title, year |-> item_dict.year, path |-> item_dict.path,
                  tmdbid |-> 0, season_episode_no_exist_info |-> NoSeasonInfo]
        info1 == [info0 EXCEPT !.tmdbid = item_dict.tmdbid]
        exist_season_info == item_dict.seasoninfo
        Entry(season) == SeasonEntry(exist_season_info, season,
                                     FilterEpisodes(episodes[season], current_time),
                                     subscribed)
        recorded == {season \in tmdbinfo.seasons : Entry(season) # NoEntry}
    IN  IF item_dict.tmdbid = 0 THEN [ok |-> FALSE, info |-> info0]
        ELSE IF ~Truthy(item_dict.item_type) THEN [ok |-> FALSE, info |-> info1]
        ELSE IF ~tmdbinfo.recognized THEN [ok |-> FALSE, info |-> info1]
        ELSE IF tmdbinfo.seasons = {} THEN [ok |-> FALSE, info |-> info1]
        ELSE [ok |-> TRUE,
              info |-> [info1 EXCEPT !.season_episode_no_exist_info =
                                         [season \in recorded |-> Entry(season)]]]

-----------------------------------------------------------------------------
(* EpisodeNoExist: subscriptions for a record *)

\* line 871: self._history_type == HistoryDataType.NOT_ALL_NO_EXIST
HistoryTypeIsNotAllNoExist(history_type) ==
    history_type = HistoryDataType_NOT_ALL_NO_EXIST

\* a mutant of SubscribeExists: the subscription is never found
SubscribeExists_Never(subs, season) == FALSE

\* line 783: subscribechain.subscribeoper.exists(tmdbid, season=season); subs
\* is the host's number of subscription rows per season of the show
SubscribeExists(subs, season) == subs[season] > 0

\* the host's part in __checke_and_add_subscribe for each season: "exists"
\* when the subscription is found, else what subscribechain.add answers
\* ("added", or "failed" when is_add_success is falsy)
SubscribeAnswers(subs, add_answers) ==
    [s \in DOMAIN add_answers |->
        IF SubscribeExists(subs, s) THEN "exists" ELSE add_answers[s]]

\* the host's table after subscribechain.add was called for add_calls
SubscribeAdd(subs, add_calls, add_answers) ==
    [s \in DOMAIN subs |->
        IF s \in add_calls /\ add_answers[s] = "added" THEN subs[s] + 1
        ELSE subs[s]]

\* __add_subscribe_by_tv_no_exist_info with __checke_and_add_subscribe, over
\* the seasons in key order. answers[season] is what the host does for that
\* season: "exists" (already subscribed), "added" or "failed" (add refused).
\* The result is (ok, the seasons for which subscribechain.add was called).
AddSubscribeByTvNoExistInfo(cfg, tv_no_exist_info, answers) ==
    LET seasons == tv_no_exist_info.season_episode_no_exist_info
        Skipped(s) == /\ seasons[s].episode_no_exist = {}
                      /\ HistoryTypeIsNotAllNoExist(cfg.history_type)
        tried == {s \in DOMAIN seasons : ~Skipped(s)}
        failing == {s \in tried : answers[s] = "failed"}
        Reached(s) == \A f \in failing : s <= f
    IN  IF \/ ~Truthy(tv_no_exist_info.title)
           \/ ~Truthy(tv_no_exist_info.year)
           \/ tv_no_exist_info.tmdbid = 0
           \/ DOMAIN seasons = {}
        THEN [ok |-> FALSE, add_calls |-> {}]
        ELSE [ok |-> failing = {},
              add_calls |-> {s \in tried : Reached(s) /\ answers[s] # "exists"}]

-----------------------------------------------------------------------------
(* EpisodeNoExist: the environment *)

\* the media server the host is configured with
MediaServer == "emby"

\* items of the whitelisted libraries (tmdbid 0 = None)
ShowA == [item_id |-> "1", title |-> "ShowA", original_title |-> NoneVal,
          library |-> "TV", item_type |-> "Series", tmdbid |-> 10,
          year |-> "2020", path |-> "/tv/ShowA"]
ShowB == [item_id |-> "2", title |-> NoneVal, original_title |-> "ShowB",
          library |-> "TV", item_type |-> "show", tmdbid |-> 0,
          year |-> NoneVal, path |-> "/tv/ShowB"]
MovieM == [item_id |-> "3", title |-> "MovieM", original_title |-> NoneVal,
           library |-> "TV", item_type |-> "Movie", tmdbid |-> 30,
           year |-> "2019", path |-> "/tv/MovieM"]
ShowC == [item_id |-> "4", title |-> "ShowC", original_title |-> NoneVal,
          library |-> "TV", item_type |-> "Series", tmdbid |-> 10,
          year |-> NoneVal, path |-> "/tv/ShowC"]
EpItems == {ShowA, ShowB, ShowC, MovieM}

Today == [year |-> 2024, month |-> 1, day |-> 1, hour |-> 8]

Ep(n, air_date) == [episode_number |-> n, air_date |-> air_date]
AiredSeason == <<Ep(1, <<2020, 1, 1>>), Ep(2, <<2020, 1, 8>>), Ep(3, <<2023, 12, 31>>)>>
AiringSeason == <<Ep(1, <<2023, 12, 25>>), Ep(2, <<2024, 1, 1>>), Ep(3, NoDate)>>

\* what the host returns while one item is checked
EpScenarios ==
    { \* TMDB does not know the show
      [seasoninfo |-> (1 :> <<1, 2>>), tmdbinfo |-> [recognized |-> FALSE, seasons |-> {}],
       episodes |-> (1 :> <<>>) @@ (2 :> <<>>)],
      \* every aired episode is in the library
      [seasoninfo |-> (1 :> <<1, 2, 3>>) @@ (2 :> <<1>>),
       tmdbinfo |-> [recognized |-> TRUE, seasons |-> {1, 2}],
       episodes |-> (1 :> AiredSeason) @@ (2 :> AiringSeason)],
      \* episode 3 of season 1 and the whole of season 2 are missing
      [seasoninfo |-> (1 :> <<1, 2>>),
       tmdbinfo |-> [recognized |-> TRUE, seasons |-> {1, 2}],
       episodes |-> (1 :> AiredSeason) @@ (2 :> AiringSeason)],
      \* the library has no episode of the show
      [seasoninfo |-> NoSeasonInfo,
       tmdbinfo |-> [recognized |-> TRUE, seasons |-> {1, 2}],
       episodes |-> (1 :> AiredSeason) @@ (2 :> <<>>)] }

\* the host's subscription rows for the seasons of the show before the
\* plugin is used: none, or season 1
NoSubscriptions == (1 :> 0) @@ (2 :> 0)
SubscribedSeasons == {NoSubscriptions, (1 :> 1) @@ (2 :> 0)}

\* what subscribechain.add answers for a season when it is called
AddAnswers ==
    { (1 :> "added") @@ (2 :> "added"),
      (1 :> "added") @@ (2 :> "failed") }

\* the configurations the user may save
EpConfigs ==
    { [EpDefaultConfig EXCEPT !.enabled = TRUE],
      [EpDefaultConfig EXCEPT !.enabled = TRUE,
                              !.no_exist_action = NoExistAction_ADD_SUBSCRIBE,
                              !.history_type = HistoryDataTypeValue("NOT_ALL_NO_EXIST")],
      [EpDefaultConfig EXCEPT !.onlyonce = TRUE, !.clear = TRUE,
                              !.no_exist_action = NoExistAction_SET_ALL_EXIST] }

\* item.title or item.original_title or f"ItemID: {item.item_id}"
ItemTitle(item) ==
    IF Truthy(item.title) THEN <<item.title>>
    ELSE IF Truthy(item.original_title) THEN <<item.original_title>>
    ELSE <<"ItemID: ", item.item_id>>

\* item_unique_flag = f"{mediaserver}_{item.library}_{item.item_id}_{item_title}"
ItemUniqueFlag(mediaserver, item) ==
    <<mediaserver, "_", item.library, "_", item.item_id, "_">> \o ItemTitle(item)

\* the keys a caller of the endpoints may name
EpKeys == {ItemUniqueFlag(MediaServer, ShowA)}

EpNoStep ==
    [act |-> "none", key |-> <<>>, outcome |-> "", add_calls |-> {},
     before |-> NoHistoryData, apikey |-> "", subs_before |-> NoSubscriptions,
     ok |-> FALSE, recognized |-> FALSE]

-----------------------------------------------------------------------------
(* EpisodeNoExist: init_plugin *)

\* init_plugin(config), lines 147-216
EpInitPlugin(config) ==
    /\ EpOnly
    /\  LET flagged == (config.enabled \/ config.onlyonce)
                      /\ (config.onlyonce \/ config.clear)
       IN  /\ ep_pc = "idle"
           /\ ep_inits < MaxInits
           /\ ep_inits' = ep_inits + 1
           /\ ep_cfg' = IF flagged
                        THEN [config EXCEPT !.clear = FALSE, !.onlyonce = FALSE]
                        ELSE config
           /\ ep_clearflag' = IF flagged THEN config.clear ELSE ep_clearflag
           /\ ep_last' = [EpNoStep EXCEPT !.act = "init_plugin"]
           /\ UNCHANGED <<ep_data, ep_pc, ep_history, ep_subs, ep_runs, ep_steps>>

-----------------------------------------------------------------------------
(* EpisodeNoExist: __get_mediaserver_tv_info, one action per item *)

\* lines 296-304 and 330-345: the clear flag, the history is read; the job
\* ends at once when the host has no media server configured
EpRefreshStart ==
    /\ EpOnly
    /\ ep_pc = "idle"
    /\ ep_runs < MaxRuns
    /\ ep_runs' = ep_runs + 1
    /\ ep_clearflag' = FALSE
    /\ ep_data' = IF ep_clearflag THEN NoHistoryData ELSE ep_data
    /\ ep_history' = IF ep_clearflag \/ ~ep_data.stored THEN EmptyHistory
                     ELSE ep_data.value
    /\ \E mediaserver_set \in BOOLEAN :
          ep_pc' = IF mediaserver_set THEN "scan" ELSE "idle"
    /\ ep_last' = [EpNoStep EXCEPT !.act = "start"]
    /\ UNCHANGED <<ep_cfg, ep_subs, ep_inits, ep_steps>>

\* a mutant of AppendHistory: the flag is listed, the details entry is not
\* written
AppendHistory_FlagOnly(history, item_unique_flag, exist_status, tv_no_exist_info) ==
    [history EXCEPT !.item_unique_flags = Append(@, item_unique_flag)]

\* __append_history: the flag, the details entry (the timestamps are left
\* out), and the history with them
AppendHistory(history, item_unique_flag, exist_status, tv_no_exist_info) ==
    [item_unique_flags |-> Append(history.item_unique_flags, item_unique_flag),
     details |-> [k \in DOMAIN history.details \cup {item_unique_flag} |->
                     IF k = item_unique_flag
                     THEN [exist_status |-> exist_status,
                           tv_no_exist_info |-> tv_no_exist_info]
                     ELSE history.details[k]]]

\* the status __get_mediaserver_tv_info records for a newly scanned TV item,
\* with every failed subscription recorded as subscribed
ExistStatus_AlwaysAdded(cfg, ok, has_gap, sub_ok) ==
    IF ~ok THEN HistoryStatus_FAILED
    ELSE IF ~has_gap THEN HistoryStatus_ALL_EXIST
    ELSE IF cfg.no_exist_action = NoExistAction_ADD_SUBSCRIBE
    THEN HistoryStatus_ADDED_RSS
    ELSE IF cfg.no_exist_action = NoExistAction_SET_ALL_EXIST
    THEN HistoryStatus_ALL_EXIST
    ELSE HistoryStatus_NO_EXIST

\* the status __get_mediaserver_tv_info records for a newly scanned TV item:
\* FAILED without gap information, ALL_EXIST without a missing season, and
\* otherwise by no_exist_action (lines 426-492)
ExistStatus(cfg, ok, has_gap, sub_ok) ==
    IF ~ok THEN HistoryStatus_FAILED
    ELSE IF ~has_gap THEN HistoryStatus_ALL_EXIST
    ELSE IF cfg.no_exist_action = NoExistAction_ADD_SUBSCRIBE
    THEN IF sub_ok THEN HistoryStatus_ADDED_RSS
         ELSE HistoryStatus_NO_EXIST
    ELSE IF cfg.no_exist_action = NoExistAction_SET_ALL_EXIST
    THEN HistoryStatus_ALL_EXIST
    ELSE HistoryStatus_NO_EXIST

\* lines 372-494: one item of a library
EpItemStep ==
    /\ EpOnly
    /\ ep_pc = "scan"
    /\ ep_steps < MaxSteps
    /\ ep_steps' = ep_steps + 1
    /\ \E item \in EpItems, sc \in EpScenarios, add_answers \in AddAnswers :
          LET answers == SubscribeAnswers(ep_subs, add_answers)
              subscribed == {s \in DOMAIN ep_subs : SubscribeExists(ep_subs, s)}
              item_unique_flag == ItemUniqueFlag(MediaServer, item)
              is_tv == item.item_type \in {"Series", "show"}
              item_dict == [title |-> item.title,
                            original_title |-> item.original_title,
                            year |-> item.year, path |-> item.path,
                            tmdbid |-> item.tmdbid,
                            item_type |-> IF is_tv THEN "TV" ELSE "MOVIE",
                            seasoninfo |-> IF is_tv /\ item.tmdbid # 0
                                           THEN sc.seasoninfo ELSE NoSeasonInfo]
          IN
          \E r \in {GetItemNoExistInfo(item_dict, sc.tmdbinfo, sc.episodes,
                                       subscribed, Today)} :
          \E sub \in {AddSubscribeByTvNoExistInfo(ep_cfg, r.info, answers)} :
          LET has_gap == r.info.season_episode_no_exist_info # NoSeasonInfo
              subscribing == r.ok /\ has_gap
                             /\ ep_cfg.no_exist_action = NoExistAction_ADD_SUBSCRIBE
              exist_status == ExistStatus(ep_cfg, r.ok, has_gap, sub.ok)
              history == AppendHistory(ep_history, item_unique_flag, exist_status,
                                       r.info)
          IN  IF \/ ~Truthy(item.item_id)
                 \/ item_unique_flag \in Range(ep_history.item_unique_flags)
                 \/ ~is_tv
              THEN \* continue
                   /\ ep_last' = [EpNoStep EXCEPT !.act = "item",
                                                  !.key = item_unique_flag,
                                                  !.outcome = "skipped",
                                                  !.before = ep_data,
                                                  !.subs_before = ep_subs]
                   /\ UNCHANGED <<ep_data, ep_history, ep_subs>>
              ELSE \* __append_history saves the history
                   /\ ep_history' = history
                   /\ ep_data' = Stored(history)
                   /\ ep_subs' = IF subscribing
                                 THEN SubscribeAdd(ep_subs, sub.add_calls,
                                                   add_answers)
                                 ELSE ep_subs
                   /\ ep_last' = [EpNoStep EXCEPT
                                     !.act = "item", !.key = item_unique_flag,
                                     !.outcome = exist_status,
                                     !.add_calls = IF subscribing THEN sub.add_calls
                                                   ELSE {},
                                     !.before = ep_data,
                                     !.subs_before = ep_subs,
                                     !.ok = r.ok,
                                     !.recognized = sc.tmdbinfo.recognized]
    /\ UNCHANGED <<ep_cfg, ep_clearflag, ep_pc, ep_runs, ep_inits>>

\* the loops over servers, libraries and items are exhausted
EpRefreshEnd ==
    /\ EpOnly
    /\ ep_pc = "scan"
    /\ ep_pc' = "idle"
    /\ ep_last' = [EpNoStep EXCEPT !.act = "end"]
    /\ UNCHANGED <<ep_cfg, ep_clearflag, ep_data, ep_history, ep_subs, ep_runs,
                   ep_inits, ep_steps>>

-----------------------------------------------------------------------------
(* EpisodeNoExist: the endpoints *)

\* a mutant of RemoveHistoryByUnique: every entry is removed
RemoveHistoryByUnique_All(historys, unique) ==
    [ok |-> unique \in DOMAIN historys.details, historys |-> EmptyHistory]

\* __remove_history_by_unique
RemoveHistoryByUnique(historys, unique) ==
    LET flags == SelectSeq(historys.item_unique_flags, LAMBDA item : item # unique)
    IN  IF unique \in DOMAIN historys.details
        THEN [ok |-> TRUE,
              historys |-> [item_unique_flags |-> flags,
                            details |-> [k \in DOMAIN historys.details \ {unique} |->
                                            historys.details[k]]]]
        ELSE [ok |-> FALSE,
              historys |-> [historys EXCEPT !.item_unique_flags = flags]]

\* __update_exist_status_by_unique
UpdateExistStatusByUnique(historys, unique, new_status) ==
    IF unique \in DOMAIN historys.details
    THEN [ok |-> TRUE,
          historys |-> [historys EXCEPT !.details[unique].exist_status = new_status]]
    ELSE [ok |-> FALSE, historys |-> historys]

\* __add_subscribe_by_unique
AddSubscribeByUnique(cfg, historys, unique, answers) ==
    IF unique \in DOMAIN historys.details
    THEN LET sub == AddSubscribeByTvNoExistInfo(
                        cfg, historys.details[unique].tv_no_exist_info, answers)
             upd == UpdateExistStatusByUnique(historys, unique,
                                              HistoryStatus_ADDED_RSS)
         IN  IF sub.ok
             THEN [ok |-> upd.ok, historys |-> upd.historys,
                   add_calls |-> sub.add_calls]
             ELSE [ok |-> FALSE, historys |-> historys, add_calls |-> sub.add_calls]
    ELSE [ok |-> FALSE, historys |-> historys, add_calls |-> {}]

\* the common shape of the three endpoints: the token, the stored history,
\* the change, and the save when the change succeeded; add_answers is what
\* subscribechain.add answers for the calls the change makes
EpEndpoint(name, key, apikey, r, add_answers) ==
    /\ EpOnly
    /\  LET outcome == IF apikey # API_TOKEN THEN "bad_token"
                      ELSE IF ~ep_data.stored THEN "no_history"
                      ELSE IF r.ok THEN "success"
                      ELSE "failed"
       IN  /\ ep_data' = IF outcome = "success" THEN Stored(r.historys) ELSE ep_data
           /\ ep_last' = [act |-> name, key |-> key, outcome |-> outcome,
                          add_calls |-> IF outcome \in {"success", "failed"}
                                        THEN r.add_calls ELSE {},
                          before |-> ep_data, apikey |-> apikey,
                          subs_before |-> ep_subs, ok |-> FALSE,
                          recognized |-> FALSE]
           /\ ep_subs' = IF outcome \in {"success", "failed"}
                         THEN SubscribeAdd(ep_subs, r.add_calls, add_answers)
                         ELSE ep_subs
           /\ UNCHANGED <<ep_cfg, ep_clearflag, ep_pc, ep_history, ep_runs,
                          ep_inits, ep_steps>>

\* delete_history(key, apikey), lines 929-951
EpDeleteHistory(key, apikey) ==
    LET r == RemoveHistoryByUnique(ep_data.value, key)
    IN  EpEndpoint("delete_history", key, apikey,
                   [ok |-> r.ok, historys |-> r.historys, add_calls |-> {}],
                   <<>>)

\* add_subscribe_history(key, apikey), lines 953-974
EpAddSubscribeHistory(key, apikey, add_answers) ==
    EpEndpoint("add_subscribe_history", key, apikey,
               AddSubscribeByUnique(ep_cfg, ep_data.value, key,
                                    SubscribeAnswers(ep_subs, add_answers)),
               add_answers)

\* set_all_exist_history(key, apikey), lines 976-999
EpSetAllExistHistory(key, apikey) ==
    LET r == UpdateExistStatusByUnique(ep_data.value, key, HistoryStatus_ALL_EXIST)
    IN  EpEndpoint("set_all_exist_history", key, apikey,
                   [ok |-> r.ok, historys |-> r.historys, add_calls |-> {}],
                   <<>>)
-----------------------------------------------------------------------------
(* MigrateSub: constants and the environment *)

\* the class attributes of MigrateSub (lines 102-107)
MgDefaultConfig ==
    [migrate_api_token |-> "", migrate_from_url |-> "", enabled |-> FALSE,
     onlyonce |-> FALSE, is_with_sites |-> FALSE, is_with_sub_history |-> FALSE]

MgBaseConfig ==
    [MgDefaultConfig EXCEPT !.migrate_api_token = "source-token",
                            !.migrate_from_url = "http://source",
                            !.onlyonce = TRUE]

\* the configurations the user may save
MgConfigs ==
    { MgBaseConfig,
      [MgBaseConfig EXCEPT !.is_with_sites = TRUE, !.is_with_sub_history = TRUE],
      [MgBaseConfig EXCEPT !.migrate_api_token = ""],
      [MgBaseConfig EXCEPT !.migrate_from_url = "", !.enabled = TRUE],
      [MgBaseConfig EXCEPT !.onlyonce = FALSE, !.enabled = TRUE] }

\* entries of the source's subscription list (tmdbid 0 and season 0 = None)
SubItem(tmdbid, doubanid, season) ==
    [tmdbid |-> tmdbid, doubanid |-> doubanid, season |-> season, sites |-> <<1>>]

SubItems ==
    { SubItem(1, NoneVal, 1), SubItem(1, NoneVal, 2), SubItem(0, "d1", 1),
      SubItem(0, NoneVal, 0) }

\* what the source returns for its sites and its subscription history
SiteLists == {<<>>, <<"site1", "site2">>}
SubHistoryLists ==
    { <<>>, <<SubItem(1, NoneVal, 1), SubItem(1, NoneVal, 0)>>,
      <<SubItem(1, NoneVal, 0), SubItem(1, NoneVal, 1)>>,
      <<SubItem(0, "d1", 1), SubItem(0, "d1", 2), SubItem(0, NoneVal, 0)>> }

MgNoStep ==
    [act |-> "none", outcome |-> "", item |-> SubItem(0, NoneVal, 0),
     returned |-> FALSE, before |-> <<>>, data |-> <<>>, apikey |-> "",
     with_history |-> FALSE, history_run |-> FALSE, with_sites |-> FALSE,
     sites_run |-> FALSE, sites_before |-> <<>>, ret_sites |-> <<>>,
     add_count |-> 0, left |-> 0]

-----------------------------------------------------------------------------
(* MigrateSub: the host's subscription table *)

\* SubscribeOper.exists(tmdbid, doubanid, season) belongs to the host. A row
\* with the same TMDB id (or, without a TMDB id, the same Douban id) and the
\* same season is reported; when no row has the id nothing is reported; when
\* a row has the id with another season the answer is the host's.
SubscribeExistsAnswers(subs, tmdbid, doubanid, season) ==
    LET rows == Range(subs)
        same_pair == \E row \in rows :
                        /\ row.season = season
                        /\ IF tmdbid # 0 THEN row.tmdbid = tmdbid
                           ELSE Truthy(doubanid) /\ row.doubanid = doubanid
        same_id == \E row \in rows :
                      \/ tmdbid # 0 /\ row.tmdbid = tmdbid
                      \/ Truthy(doubanid) /\ row.doubanid = doubanid
    IN  IF same_pair THEN {TRUE}
        ELSE IF ~same_id THEN {FALSE}
        ELSE BOOLEAN

-----------------------------------------------------------------------------
(* MigrateSub: __add_sub and __add_sub_history *)

\* Subscribe(**kwargs) / SubscribeHistory(**kwargs): the id is dropped, the
\* sites are dropped unless the site migration is on
NewRow(item, is_with_sites) ==
    [tmdbid |-> item.tmdbid, doubanid |-> item.doubanid, season |-> item.season,
     sites |-> IF is_with_sites THEN item.sites ELSE <<>>]

\* a mutant of AddSub: the row is created whatever the existence check says
AddSub_Always(subs, item, is_with_sites, is_sub_exists) ==
    [added |-> TRUE, subs |-> Append(subs, NewRow(item, is_with_sites))]

\* __add_sub(item) given the answer of self._subscribeoper.exists: (added,
\* the subscription table afterwards)
AddSub(subs, item, is_with_sites, is_sub_exists) ==
    IF ~is_sub_exists
    THEN [added |-> TRUE, subs |-> Append(subs, NewRow(item, is_with_sites))]
    ELSE [added |-> FALSE, subs |-> subs]

\* SubscribeHistoryOper.is_exists, lines 32-61
IsExists(rows, tmdbid, doubanid, season) ==
    IF tmdbid # 0
    THEN IF season # 0
         THEN \E i \in 1..Len(rows) :
                 rows[i].tmdbid = tmdbid /\ rows[i].season = season
         ELSE \E i \in 1..Len(rows) : rows[i].tmdbid = tmdbid
    ELSE IF Truthy(doubanid)
         THEN \E i \in 1..Len(rows) : rows[i].doubanid = doubanid
         ELSE FALSE

\* __add_sub_history(item)
AddSubHistory(rows, item, is_with_sites) ==
    IF IsExists(rows, item.tmdbid, item.doubanid, item.season)
    THEN [added |-> FALSE, rows |-> rows]
    ELSE [added |-> TRUE, rows |-> Append(rows, NewRow(item, is_with_sites))]

\* the loop of __migrate_sub_history over the fetched list
RECURSIVE AddSubHistoryAll(_, _, _)
AddSubHistoryAll(rows, items, is_with_sites) ==
    IF items = <<>> THEN rows
    ELSE AddSubHistoryAll(AddSubHistory(rows, Head(items), is_with_sites).rows,
                          Tail(items), is_with_sites)

-----------------------------------------------------------------------------
(* MigrateSub: init_plugin and __start_migrate *)

\* init_plugin(config), lines 111-160: with onlyonce the job is scheduled
\* and the switch is written back as off
MgInitPlugin(config) ==
    /\ MgOnly
    /\ mg_pc = "idle"
    /\ mg_inits < MaxInits
    /\ mg_inits' = mg_inits + 1
    /\ mg_cfg' = [config EXCEPT !.onlyonce = FALSE]
    /\ mg_scheduled' = config.onlyonce
    /\ mg_last' = [MgNoStep EXCEPT !.act = "init_plugin"]
    /\ UNCHANGED <<mg_subs, mg_sub_history, mg_sites, mg_pc, mg_left,
                   mg_add_count, mg_runs>>

\* lines 181-191: the job starts, checks its settings and fetches the list
MgStartMigrate ==
    /\ MgOnly
    /\ mg_pc = "idle"
    /\ mg_scheduled
    /\ mg_runs < MaxRuns
    /\ mg_runs' = mg_runs + 1
    /\ mg_scheduled' = FALSE
    /\ mg_add_count' = 0
    /\ IF mg_cfg.migrate_api_token = "" \/ mg_cfg.migrate_from_url = ""
       THEN /\ mg_last' = [MgNoStep EXCEPT !.act = "start", !.outcome = "no_settings"]
            /\ UNCHANGED <<mg_pc, mg_left>>
       ELSE \E n \in 0..MaxItems :
               /\ mg_left' = n
               /\ mg_pc' = IF n = 0 THEN "idle" ELSE "add"
               /\ mg_last' = [MgNoStep EXCEPT
                                 !.act = "start",
                                 !.outcome = IF n = 0 THEN "no_list" ELSE "list",
                                 !.with_history = mg_cfg.is_with_sub_history,
                                 !.with_sites = mg_cfg.is_with_sites,
                                 !.sites_before = mg_sites,
                                 !.left = n]
    /\ UNCHANGED <<mg_cfg, mg_subs, mg_sub_history, mg_sites, mg_inits>>

\* lines 196-203: one item of the list goes through __add_sub
MgAddSubStep ==
    /\ MgOnly
    /\ mg_pc = "add"
    /\ mg_left > 0
    /\ \E item \in SubItems :
       \E is_sub_exists \in SubscribeExistsAnswers(mg_subs, item.tmdbid,
                                                   Str(item.doubanid), item.season) :
          LET r == AddSub(mg_subs, item, mg_cfg.is_with_sites, is_sub_exists)
          IN  /\ mg_subs' = r.subs
              /\ mg_add_count' = IF r.added THEN mg_add_count + 1 ELSE mg_add_count
              /\ mg_last' = [MgNoStep EXCEPT !.act = "add_sub", !.item = item,
                                             !.returned = r.added,
                                             !.before = mg_subs]
    /\ mg_left' = mg_left - 1
    /\ UNCHANGED <<mg_cfg, mg_scheduled, mg_sub_history, mg_sites, mg_pc,
                   mg_runs, mg_inits>>

\* __migrate_sites, lines 252-273, given the fetched list: nothing for an empty
\* list, else Site.reset and one Site.create per fetched site
MigrateSites(sites, ret_sites) ==
    IF ret_sites = <<>> THEN sites ELSE ret_sites

\* a mutant of SitesDue: the number of added subscriptions is not looked at
SitesDue_AnyCount(cfg, add_count) == cfg.is_with_sites

\* line 214: if self._is_with_sites and add_count > 0
SitesDue(cfg, add_count) == cfg.is_with_sites /\ add_count > 0

\* lines 208-222 with __migrate_sites and __migrate_sub_history: the list is
\* done, the sites and the subscription history follow when they are on
MgMigrateEnd ==
    /\ MgOnly
    /\ mg_pc = "add"
    /\ mg_left = 0
    /\ mg_pc' = "idle"
    /\ \E ret_sites \in SiteLists, ret_sub_history \in SubHistoryLists :
          LET sites_run == SitesDue(mg_cfg, mg_add_count)
              history_run == mg_cfg.is_with_sub_history
              step == [MgNoStep EXCEPT
                          !.act = "end",
                          !.with_history = mg_cfg.is_with_sub_history,
                          !.history_run = history_run,
                          !.with_sites = mg_cfg.is_with_sites,
                          !.sites_run = sites_run,
                          !.sites_before = mg_sites,
                          !.ret_sites = IF sites_run THEN ret_sites ELSE <<>>,
                          !.add_count = mg_add_count]
          IN  /\ mg_sites' = IF sites_run THEN MigrateSites(mg_sites, ret_sites)
                             ELSE mg_sites
              /\ IF history_run /\ ret_sub_history # <<>>
                 THEN /\ mg_sub_history' = AddSubHistoryAll(mg_sub_history,
                                               ret_sub_history, mg_cfg.is_with_sites)
                      /\ mg_cfg' = [mg_cfg EXCEPT !.is_with_sub_history = FALSE]
                      /\ mg_last' = [step EXCEPT !.outcome = "sub_history",
                                                 !.before = mg_sub_history,
                                                 !.data = ret_sub_history]
                 ELSE /\ mg_last' = step
                      /\ UNCHANGED <<mg_sub_history, mg_cfg>>
    /\ UNCHANGED <<mg_scheduled, mg_subs, mg_left, mg_add_count, mg_runs, mg_inits>>

-----------------------------------------------------------------------------
(* MigrateSub: the endpoints *)

\* a mutant of ValidateTokenRefuses: no request is refused
ValidateTokenRefuses_Never(migrate_api_token) == FALSE

\* _validate_token: TRUE when the request is refused
ValidateTokenRefuses(migrate_api_token) == migrate_api_token # API_TOKEN

\* get_sub_history(migrate_api_token), lines 327-335
MgGetSubHistory(migrate_api_token) ==
    /\ MgOnly
    /\ mg_last' = IF ValidateTokenRefuses(migrate_api_token)
                  THEN [MgNoStep EXCEPT !.act = "get_sub_history",
                                        !.outcome = "bad_token",
                                        !.apikey = migrate_api_token]
                  ELSE [MgNoStep EXCEPT !.act = "get_sub_history",
                                        !.outcome = "success",
                                        !.data = mg_sub_history,
                                        !.apikey = migrate_api_token]
    /\ UNCHANGED <<mg_cfg, mg_scheduled, mg_subs, mg_sub_history, mg_sites,
                   mg_pc, mg_left, mg_add_count, mg_runs, mg_inits>>

\* get_sites_list(migrate_api_token), lines 337-345
MgGetSitesList(migrate_api_token) ==
    /\ MgOnly
    /\ mg_last' = IF ValidateTokenRefuses(migrate_api_token)
                  THEN [MgNoStep EXCEPT !.act = "get_sites_list",
                                        !.outcome = "bad_token",
                                        !.apikey = migrate_api_token]
                  ELSE [MgNoStep EXCEPT !.act = "get_sites_list",
                                        !.outcome = "success", !.data = mg_sites,
                                        !.apikey = migrate_api_token]
    /\ UNCHANGED <<mg_cfg, mg_scheduled, mg_subs, mg_sub_history, mg_sites,
                   mg_pc, mg_left, mg_add_count, mg_runs, mg_inits>>
-----------------------------------------------------------------------------
(* The service side of the three plugins: init_plugin, stop_service,
   get_service, the one-shot job of the plugin's own BackgroundScheduler and
   the job the host runs from the cron trigger. A job is reduced to its item
   loop; the other sections model what an item does. *)

\* the two ways a job instance comes to run
OneShot == "oneshot"
Cron == "cron"
Jobs == {OneShot, Cron}

\* the default trigger of get_service
DefaultCron == "0 8 * * *"

\* the switches of the configurations the user may save
SvConfigs ==
    [enabled : BOOLEAN, onlyonce : BOOLEAN, cron : {"", "0 6 * * *"}]

SvDefaultConfig == [enabled |-> FALSE, onlyonce |-> FALSE, cron |-> ""]

\* no stop_service call during the run of a job, or the items at the call
NoMark == <<>>

SvNoStep ==
    [act |-> "none", job |-> "", outcome |-> "", asked_onlyonce |-> FALSE,
     asked_enabled |-> FALSE, reloaded |-> FALSE, add_jobs |-> 0]

\* the plugins whose job looks at the stop flag between two items: only
\* __refresh_rss does (doubanrankplus line 1088)
ChecksStopFlag(p) == p = "rank"

\* the plugins that register a cron service: migratesub has no get_service
HasGetService(p) == p \in {"rank", "episode"}

\* get_service(): one job with the configured cron or the default one when
\* the plugin is enabled, none otherwise (doubanrankplus 266-286,
\* episodenoexist 267-287)
GetService(p, cfg) ==
    IF ~HasGetService(p) THEN <<>>
    ELSE IF cfg.enabled /\ cfg.cron # ""
    THEN <<[id |-> p, trigger |-> cfg.cron, func |-> "refresh"]>>
    ELSE IF cfg.enabled
    THEN <<[id |-> p, trigger |-> DefaultCron, func |-> "refresh"]>>
    ELSE <<>>

\* a mutant of ServiceStarts: only an enabled plugin starts anything
ServiceStarts_EnabledOnly(cfg) == cfg.enabled

\* if self._enabled or self._onlyonce (doubanrankplus 195, episodenoexist
\* 190, migratesub 142)
ServiceStarts(cfg) == cfg.enabled \/ cfg.onlyonce

\* the rest of init_plugin after stop_service has returned (doubanrankplus
\* 195-227, episodenoexist 190-216, migratesub 142-160): with onlyonce a new
\* scheduler gets one date job and is started, the switch is taken down and
\* the configuration is written back
SvInitRest(config, act) ==
    LET once == ServiceStarts(config) /\ config.onlyonce
    IN  /\ sv_scheduler' = IF once THEN "running" ELSE "none"
        /\ sv_job' = [sv_job EXCEPT ![OneShot] = IF once THEN "pending" ELSE "none"]
        /\ sv_cfg' = IF once THEN [config EXCEPT !.onlyonce = FALSE] ELSE config
        /\ sv_saved' = IF once THEN [config EXCEPT !.onlyonce = FALSE] ELSE config
        /\ sv_last' = [act EXCEPT !.add_jobs = IF once THEN 1 ELSE 0]

\* stop_service() up to shutdown() (doubanrankplus 973-986, episodenoexist
\* 723-737, migratesub 538-551): without a scheduler nothing happens; with
\* one the stop flag is raised
SvStopBegin ==
    /\ sv_event' = (sv_scheduler = "running")
    /\ sv_mark' = [j \in Jobs |-> IF sv_job[j] = "running" THEN <<sv_items[j]>>
                                 ELSE sv_mark[j]]

\* init_plugin(config): the host has stored config; the switches are read,
\* stop_service is called, and the call goes on at once when there is no
\* scheduler to shut down
SvInitPlugin(config) ==
    /\ SvOnly
    /\ sv_call = "none"
    /\ sv_inits < MaxInits
    /\ sv_inits' = sv_inits + 1
    /\ SvStopBegin
    /\ LET act == [SvNoStep EXCEPT !.act = "init_plugin",
                                   !.asked_onlyonce = config.onlyonce,
                                   !.asked_enabled = config.enabled,
                                   !.reloaded = (config = sv_saved)]
       IN  IF sv_scheduler = "none"
           THEN /\ sv_call' = "none"
                /\ SvInitRest(config, act)
           ELSE \* remove_all_jobs(), then shutdown() waits for a running job
                /\ sv_call' = "init"
                /\ sv_cfg' = config
                /\ sv_saved' = config
                /\ sv_job' = [sv_job EXCEPT
                                 ![OneShot] = IF @ = "pending" THEN "none" ELSE @]
                /\ sv_last' = [act EXCEPT !.act = "init_plugin_waits"]
                /\ UNCHANGED sv_scheduler
    /\ UNCHANGED <<sv_items, sv_services, sv_fires>>

\* the host starts again and hands the plugin the configuration it stored
SvReload ==
    /\ sv_call = "none"
    /\ SvInitPlugin(sv_saved)

\* stop_service() called by the host
SvStopService ==
    /\ SvOnly
    /\ sv_call = "none"
    /\ SvStopBegin
    /\ IF sv_scheduler = "none"
       THEN /\ sv_last' = [SvNoStep EXCEPT !.act = "stop_service"]
            /\ UNCHANGED <<sv_call, sv_job>>
       ELSE /\ sv_call' = "stop"
            /\ sv_job' = [sv_job EXCEPT
                             ![OneShot] = IF @ = "pending" THEN "none" ELSE @]
            /\ sv_last' = [SvNoStep EXCEPT !.act = "stop_service_waits"]
    /\ UNCHANGED <<sv_cfg, sv_saved, sv_scheduler, sv_items, sv_services,
                   sv_inits, sv_fires>>

\* shutdown() returns once the scheduler's own job has ended: the flag is
\* cleared, the scheduler is dropped, and init_plugin goes on
SvShutdownReturns ==
    /\ SvOnly
    /\ sv_call # "none"
    /\ sv_job[OneShot] # "running"
    /\ sv_event' = FALSE
    /\ sv_call' = "none"
    /\ IF sv_call = "init"
       THEN SvInitRest(sv_cfg, [sv_last EXCEPT !.act = "init_plugin"])
       ELSE /\ sv_scheduler' = "none"
            /\ sv_last' = [SvNoStep EXCEPT !.act = "stop_service"]
            /\ UNCHANGED <<sv_cfg, sv_saved, sv_job>>
    /\ UNCHANGED <<sv_items, sv_services, sv_inits, sv_fires, sv_mark>>

\* the host asks for the services after init_plugin and registers them
SvGetService ==
    /\ SvOnly
    /\ sv_call = "none"
    /\ sv_services # GetService(plugin, sv_cfg)
    /\ sv_services' = GetService(plugin, sv_cfg)
    /\ sv_last' = [SvNoStep EXCEPT !.act = "get_service"]
    /\ UNCHANGED <<sv_cfg, sv_saved, sv_scheduler, sv_event, sv_job, sv_items,
                   sv_call, sv_inits, sv_fires, sv_mark>>

\* the date trigger of the plugin's scheduler fires: the job runs in a
\* thread of that scheduler
SvOneShotFires ==
    /\ SvOnly
    /\ sv_job[OneShot] = "pending"
    /\ sv_job' = [sv_job EXCEPT ![OneShot] = "running"]
    /\ sv_items' = [sv_items EXCEPT ![OneShot] = 0]
    /\ sv_mark' = [sv_mark EXCEPT ![OneShot] = NoMark]
    /\ sv_last' = [SvNoStep EXCEPT !.act = "fire", !.job = OneShot]
    /\ UNCHANGED <<sv_cfg, sv_saved, sv_scheduler, sv_event, sv_call,
                   sv_services, sv_inits, sv_fires>>

\* the cron trigger registered with the host fires: the job runs in a
\* thread of the host's scheduler, which runs one instance of a service at
\* a time
SvCronFires ==
    /\ SvOnly
    /\ sv_services # <<>>
    /\ sv_job[Cron] = "none"
    /\ sv_fires < MaxRuns
    /\ sv_fires' = sv_fires + 1
    /\ sv_job' = [sv_job EXCEPT ![Cron] = "running"]
    /\ sv_items' = [sv_items EXCEPT ![Cron] = 0]
    /\ sv_mark' = [sv_mark EXCEPT ![Cron] = NoMark]
    /\ sv_last' = [SvNoStep EXCEPT !.act = "fire", !.job = Cron]
    /\ UNCHANGED <<sv_cfg, sv_saved, sv_scheduler, sv_event, sv_call,
                   sv_services, sv_inits>>

\* one pass of the item loop of a running job: __refresh_rss returns when
\* the stop flag is up (line 1088; the finally clause saves the history),
\* the jobs of the other two plugins never look at the flag
SvJobItem(j) ==
    /\ SvOnly
    /\ sv_job[j] = "running"
    /\ sv_items[j] < MaxItems
    /\ IF ChecksStopFlag(plugin) /\ sv_event
       THEN /\ sv_job' = [sv_job EXCEPT ![j] = "none"]
            /\ sv_last' = [SvNoStep EXCEPT !.act = "job_end", !.job = j,
                                           !.outcome = "stopped"]
            /\ UNCHANGED sv_items
       ELSE /\ sv_items' = [sv_items EXCEPT ![j] = @ + 1]
            /\ sv_last' = [SvNoStep EXCEPT !.act = "item", !.job = j]
            /\ UNCHANGED sv_job
    /\ UNCHANGED <<sv_cfg, sv_saved, sv_scheduler, sv_event, sv_call,
                   sv_services, sv_inits, sv_fires, sv_mark>>

\* the loops of a running job are exhausted
SvJobEnd(j) ==
    /\ SvOnly
    /\ sv_job[j] = "running"
    /\ sv_job' = [sv_job EXCEPT ![j] = "none"]
    /\ sv_last' = [SvNoStep EXCEPT !.act = "job_end", !.job = j,
                                   !.outcome = "done"]
    /\ UNCHANGED <<sv_cfg, sv_saved, sv_scheduler, sv_event, sv_items, sv_call,
                   sv_services, sv_inits, sv_fires, sv_mark>>

-----------------------------------------------------------------------------
(* EpisodeNoExist: __filter_episodes and __get_item_no_exist_info applied to *)
(* bounded inputs                                                           *)

\* air dates of a TMDB episode
AirDates ==
    {NoDate, <<2020, 1, 1>>, <<2023, 12, 31>>, <<2024, 1, 1>>, <<2024, 1, 2>>,
     <<2024, 2, 1>>, <<2099, 1, 1>>}

\* the current time of a call
Nows == {[year |-> 2024, month |-> 1, day |-> 1, hour |-> 0],
         [year |-> 2024, month |-> 1, day |-> 15, hour |-> 23]}

\* the episode lists of a season: episodes 1..n with any air dates
EpisodeLists ==
    UNION {[1..n -> AirDates] : n \in 0..MaxEpisodes}
NumberedEpisodes(dates) == [i \in 1..Len(dates) |-> Ep(i, dates[i])]

\* the seasons' episode lists and the library's episode lists used for the
\* gap computation
FutureSeason == <<Ep(1, <<2099, 1, 1>>)>>
SeasonLists == {<<>>, AiredSeason, AiringSeason, FutureSeason}
LibraryLists == {<<>>, <<1>>, <<1, 2, 3>>, <<3, 4>>}
SeasonInfos ==
    {NoSeasonInfo} \cup {(1 :> a) : a \in LibraryLists}
    \cup {(2 :> b) : b \in LibraryLists}
    \cup {(1 :> a) @@ (2 :> b) : a \in LibraryLists, b \in LibraryLists}
TmdbInfos ==
    {[recognized |-> TRUE, seasons |-> {1, 2}], [recognized |-> TRUE, seasons |-> {2}],
     [recognized |-> TRUE, seasons |-> {}], [recognized |-> FALSE, seasons |-> {}]}

\* ---- DoubanRankPlus: __douban_info and __get_tmdbinfo_by_doubanid ----------

\* what doubanapi.movie_detail / tv_detail answers: nothing, or a payload; msg
\* is the text of the payload's "msg" as a sequence of words
NoDetail ==
    [present |-> FALSE, msg |-> <<>>, title |-> "", original_title |-> "",
     type |-> ""]
RateLimitDetail ==
    [NoDetail EXCEPT !.present = TRUE, !.msg = <<"subject_ip_rate_limit">>]
MovieDetails ==
    { NoDetail, RateLimitDetail,
      [NoDetail EXCEPT !.present = TRUE, !.title = "T", !.original_title = "O",
                       !.type = "movie"],
      [NoDetail EXCEPT !.present = TRUE, !.title = "T", !.original_title = "T",
                       !.type = "movie"] }
TvDetails ==
    { NoDetail,
      [RateLimitDetail EXCEPT !.msg = <<"error", "subject_ip_rate_limit">>],
      [NoDetail EXCEPT !.present = TRUE, !.title = "T", !.type = "tv"] }

\* meta.cn_name and meta.en_name as MetaInfo parses them from the title
CnNames == {NoneVal, "T", "C"}
EnNames == {NoneVal, "E"}
AllNames == {"O", "T", "C", "E"}

\* the media type of the feed item
MTypes == {"TV", "MOVIE", "UNKNOWN"}

NoLookup ==
    [doubanid |-> NoneVal, mtype |-> "UNKNOWN", movie |-> NoDetail,
     tv |-> NoDetail, cn_name |-> NoneVal, en_name |-> NoneVal, matching |-> {}]

\* "subject_ip_rate_limit" in info.get("msg", "")
IsRateLimit(info) == "subject_ip_rate_limit" \in Range(info.msg)

\* __douban_movie / __douban_tv, lines 1678-1700: (info, is_ip_rate_limit)
DoubanDetail(info) ==
    IF info.present /\ IsRateLimit(info)
    THEN [info |-> NoDetail, is_ip_rate_limit |-> TRUE]
    ELSE [info |-> info, is_ip_rate_limit |-> FALSE]

\* __douban_info(doubanid, mtype), lines 1702-1713, with the calls it makes
DoubanInfo(doubanid, mtype, movie, tv) ==
    IF ~Truthy(doubanid)
    THEN [info |-> NoDetail, is_ip_rate_limit |-> FALSE, calls |-> <<>>]
    ELSE IF mtype = "TV"
    THEN [info |-> DoubanDetail(tv).info,
          is_ip_rate_limit |-> DoubanDetail(tv).is_ip_rate_limit,
          calls |-> << <<"tv_detail", doubanid>> >>]
    ELSE LET m == DoubanDetail(movie)
         IN  IF ~m.info.present /\ ~m.is_ip_rate_limit
             THEN [info |-> DoubanDetail(tv).info,
                   is_ip_rate_limit |-> DoubanDetail(tv).is_ip_rate_limit,
                   calls |-> << <<"movie_detail", doubanid>>,
                                <<"tv_detail", doubanid>> >>]
             ELSE [info |-> m.info, is_ip_rate_limit |-> m.is_ip_rate_limit,
                   calls |-> << <<"movie_detail", doubanid>> >>]

\* list(dict.fromkeys(names)): the first occurrence of each name, in order
RECURSIVE FromKeys(_)
FromKeys(names) ==
    IF names = <<>> THEN <<>>
    ELSE LET rest == FromKeys(SubSeq(names, 1, Len(names) - 1))
             last == names[Len(names)]
         IN  IF last \in Range(rest) THEN rest ELSE Append(rest, last)

\* a mutant of MetaNames: the title comes before the original title
MetaNames_TitleFirst(original_title, title, cn_name, en_name) ==
    SelectSeq(FromKeys(<<title, original_title, cn_name, en_name>>), Truthy)

\* lines 1638-1646: the candidate names, without duplicates and empty values
MetaNames(original_title, title, cn_name, en_name) ==
    LET meta_names == IF Truthy(original_title)
                      THEN FromKeys(<<original_title, title, cn_name, en_name>>)
                      ELSE FromKeys(<<title, cn_name, en_name>>)
    IN  SelectSeq(meta_names, Truthy)

NoTmdbInfo == [found |-> FALSE, name |-> "", mtype |-> ""]

\* lines 1650-1662: match_tmdbinfo is called name by name until one call
\* returns something; matching is the set of names TMDB has a match for
RECURSIVE MatchNames(_, _, _, _)
MatchNames(meta_names, mtype, matching, calls) ==
    IF meta_names = <<>> THEN [tmdbinfo |-> NoTmdbInfo, calls |-> calls]
    ELSE LET name == Head(meta_names)
             now_calls == Append(calls, <<"match_tmdbinfo", name>>)
         IN  IF name \in matching
             THEN [tmdbinfo |-> [found |-> TRUE, name |-> name, mtype |-> mtype],
                   calls |-> now_calls]
             ELSE MatchNames(Tail(meta_names), mtype, matching, now_calls)

\* __get_tmdbinfo_by_doubanid(doubanid, mtype), lines 1608-1662:
\* (tmdbinfo, is_ip_rate_limit) and the calls made
GetTmdbinfoByDoubanid(l) ==
    LET d == DoubanInfo(l.doubanid, l.mtype, l.movie, l.tv)
        doubaninfo == d.info
        media_type == IF doubaninfo.type = "movie" THEN "MOVIE" ELSE "TV"
        mtype == IF l.mtype # "UNKNOWN" THEN l.mtype ELSE media_type
        m == MatchNames(MetaNames(doubaninfo.original_title, doubaninfo.title,
                                  l.cn_name, l.en_name),
                        mtype, l.matching, d.calls)
    IN  IF d.is_ip_rate_limit \/ ~doubaninfo.present
        THEN [tmdbinfo |-> NoTmdbInfo, is_ip_rate_limit |-> d.is_ip_rate_limit,
              calls |-> d.calls]
        ELSE [tmdbinfo |-> m.tmdbinfo, is_ip_rate_limit |-> d.is_ip_rate_limit,
              calls |-> m.calls]

\* the recognised media and the filter settings of a call of
\* __checke_and_add_subscribe
CheckMedias ==
    {[TvMedia EXCEPT !.year = y[1], !.year_int = y[2], !.vote_average = v] :
        y \in {<<"2010", 2010>>, <<"2015", 2015>>, <<"2020", 2020>>},
        v \in {5, 6, 7}}
CheckConfigs ==
    {[DefaultConfig EXCEPT !.release_year = y, !.vote = v] :
        y \in {0, 2015}, v \in {0, 6}}
NoCheck ==
    [cfg |-> DefaultConfig, media |-> NoMedia, exist_flag |-> FALSE,
     sub_exists |-> FALSE]

NoCall ==
    [op |-> "none", episodes_info |-> <<>>, current_time |-> Today,
     item_dict |-> [title |-> "", original_title |-> "", year |-> "", path |-> "",
                    tmdbid |-> 0, item_type |-> "", seasoninfo |-> NoSeasonInfo],
     tmdbinfo |-> [recognized |-> FALSE, seasons |-> {}],
     episodes |-> (1 :> <<>>) @@ (2 :> <<>>), subscribed |-> {},
     lookup |-> NoLookup, check |-> NoCheck]

FilterCalls ==
    {[NoCall EXCEPT !.op = "filter", !.episodes_info = NumberedEpisodes(dates),
                    !.current_time = current_time] :
        dates \in EpisodeLists, current_time \in Nows}

GapCalls ==
    {[NoCall EXCEPT !.op = "gap",
                    !.item_dict = [title |-> "ShowA", original_title |-> NoneVal,
                                   year |-> "2020", path |-> "/tv/ShowA",
                                   tmdbid |-> tmdbid, item_type |-> "TV",
                                   seasoninfo |-> seasoninfo],
                    !.tmdbinfo = tmdbinfo,
                    !.episodes = (1 :> e1) @@ (2 :> e2),
                    !.subscribed = subscribed] :
        tmdbid \in {0, 10}, seasoninfo \in SeasonInfos, tmdbinfo \in TmdbInfos,
        e1 \in SeasonLists, e2 \in SeasonLists, subscribed \in SUBSET {1, 2}}

\* the calls of __get_tmdbinfo_by_doubanid this module draws from
LookupCalls ==
    {[NoCall EXCEPT !.op = "lookup",
                    !.lookup = [doubanid |-> doubanid, mtype |-> mtype,
                                movie |-> movie, tv |-> tv, cn_name |-> cn_name,
                                en_name |-> en_name, matching |-> matching]] :
        doubanid \in {NoneVal, "d1"}, mtype \in MTypes, movie \in MovieDetails,
        tv \in TvDetails, cn_name \in CnNames, en_name \in EnNames,
        matching \in SUBSET AllNames}

\* the calls of __checke_and_add_subscribe (rank plugin) this module draws
\* from
CheckCalls ==
    {[NoCall EXCEPT !.op = "check",
                    !.check = [cfg |-> cfg, media |-> media,
                               exist_flag |-> exist_flag,
                               sub_exists |-> sub_exists]] :
        cfg \in CheckConfigs, media \in CheckMedias, exist_flag \in BOOLEAN,
        sub_exists \in BOOLEAN}

NoResult ==
    [done |-> FALSE, episodes |-> <<>>, ok |-> FALSE, status |-> "",
     sub_adds |-> 0,
     tmdbinfo |-> NoTmdbInfo, is_ip_rate_limit |-> FALSE, calls |-> <<>>,
     info |-> [title |-> "", year |-> "", path |-> "", tmdbid |-> 0,
               season_episode_no_exist_info |-> NoSeasonInfo]]

\* __filter_episodes is called
FnFilterEpisodes ==
    /\ FnOnly
    /\ fn_call.op = "filter"
    /\ ~fn_result.done
    /\ fn_result' = [NoResult EXCEPT
                        !.done = TRUE,
                        !.episodes = FilterEpisodes(fn_call.episodes_info,
                                                    fn_call.current_time)]
    /\ UNCHANGED fn_call

\* __get_item_no_exist_info is called
FnGetItemNoExistInfo ==
    /\ FnOnly
    /\ fn_call.op = "gap"
    /\ ~fn_result.done
    /\ LET r == GetItemNoExistInfo(fn_call.item_dict, fn_call.tmdbinfo,
                                   fn_call.episodes, fn_call.subscribed,
                                   fn_call.current_time)
       IN  fn_result' = [NoResult EXCEPT !.done = TRUE, !.ok = r.ok, !.info = r.info]
    /\ UNCHANGED fn_call

\* __get_tmdbinfo_by_doubanid is called
FnGetTmdbinfoByDoubanid ==
    /\ FnOnly
    /\ fn_call.op = "lookup"
    /\ ~fn_result.done
    /\ LET r == GetTmdbinfoByDoubanid(fn_call.lookup)
       IN  fn_result' = [NoResult EXCEPT !.done = TRUE, !.tmdbinfo = r.tmdbinfo,
                                         !.is_ip_rate_limit = r.is_ip_rate_limit,
                                         !.calls = r.calls]
    /\ UNCHANGED fn_call

\* __checke_and_add_subscribe of the rank plugin is called; subscribechain.add
\* (line 1440) is reached exactly on the path that returns SUBSCRIPTION_ADDED
FnCheckAndAddSubscribe ==
    /\ FnOnly
    /\ fn_call.op = "check"
    /\ ~fn_result.done
    /\ LET c == fn_call.check
           status == CheckAndAddSubscribe(c.cfg, c.media, c.exist_flag,
                                          c.sub_exists)
       IN  fn_result' = [NoResult EXCEPT
                            !.done = TRUE, !.status = status,
                            !.sub_adds = IF status = SUBSCRIPTION_ADDED THEN 1
                                         ELSE 0]
    /\ UNCHANGED fn_call
-----------------------------------------------------------------------------
(* The specifications *)

Plugins == {"rank", "episode", "migrate"}

RankInit ==
    /\ rk_cfg = DefaultConfig
    /\ rk_saved = DefaultConfig
    /\ rk_clearflag = FALSE
    /\ rk_clearflag_unrecognized = FALSE
    /\ rk_data = <<>>
    /\ rk_pc = "idle"
    /\ rk_history = <<>>
    /\ rk_unique_flags = {}
    /\ rk_addr_list = <<>>
    /\ rk_addr_index = 1
    /\ rk_addr_bound = FALSE
    /\ rk_paths = FALSE
    /\ rk_n_items = 0
    /\ rk_item_index = 0
    /\ rk_last_limit = NoTime
    /\ rk_limit_times = 0
    /\ now = 0
    /\ ticks = 0
    /\ rk_runs = 0
    /\ rk_inits = 0
    /\ rk_steps = 0
    /\ rk_last = NoStep
    /\ rk_feedlog = <<>>
    /\ rk_limit_seen = NoTime

\* the plugin after construction, the host holding the subscriptions subs
EpState(subs) ==
    /\ ep_cfg = EpDefaultConfig
    /\ ep_clearflag = FALSE
    /\ ep_data = NoHistoryData
    /\ ep_pc = "idle"
    /\ ep_history = EmptyHistory
    /\ ep_runs = 0
    /\ ep_inits = 0
    /\ ep_steps = 0
    /\ ep_subs = subs
    /\ ep_last = EpNoStep

EpInit == EpState(NoSubscriptions)

\* the episode plugin is the one that runs: the host may hold subscriptions
EpInitSubscribed ==
    IF plugin = "episode" THEN \E subs \in SubscribedSeasons : EpState(subs)
    ELSE EpInit

MgInit ==
    /\ mg_cfg = MgDefaultConfig
    /\ mg_scheduled = FALSE
    /\ mg_subs = <<>>
    /\ mg_sub_history = <<>>
    /\ mg_sites = <<"local">>
    /\ mg_pc = "idle"
    /\ mg_left = 0
    /\ mg_add_count = 0
    /\ mg_runs = 0
    /\ mg_inits = 0
    /\ mg_last = MgNoStep

SvInit ==
    /\ sv_cfg = SvDefaultConfig
    /\ sv_saved = SvDefaultConfig
    /\ sv_scheduler = "none"
    /\ sv_event = FALSE
    /\ sv_job = [j \in Jobs |-> "none"]
    /\ sv_items = [j \in Jobs |-> 0]
    /\ sv_call = "none"
    /\ sv_services = <<>>
    /\ sv_inits = 0
    /\ sv_fires = 0
    /\ sv_mark = [j \in Jobs |-> NoMark]
    /\ sv_last = SvNoStep

FnIdle ==
    /\ fn_call = NoCall
    /\ fn_result = NoResult

RankNext ==
    \/ \E config \in RankConfigs : RankInitPlugin(config)
    \/ RankReload
    \/ RankRefreshStart
    \/ RankFeedBegin
    \/ RankItemStep
    \/ RankRefreshEnd
    \/ \E key \in RankKeys, apikey \in Tokens : RankDeleteHistory(key, apikey)

EpNext ==
    \/ \E config \in EpConfigs : EpInitPlugin(config)
    \/ EpRefreshStart
    \/ EpItemStep
    \/ EpRefreshEnd
    \/ \E key \in EpKeys, apikey \in Tokens : EpDeleteHistory(key, apikey)
    \/ \E key \in EpKeys, apikey \in Tokens, answers \in AddAnswers :
          EpAddSubscribeHistory(key, apikey, answers)
    \/ \E key \in EpKeys, apikey \in Tokens : EpSetAllExistHistory(key, apikey)

MgNext ==
    \/ \E config \in MgConfigs : MgInitPlugin(config)
    \/ MgStartMigrate
    \/ MgAddSubStep
    \/ MgMigrateEnd
    \/ \E migrate_api_token \in Tokens : MgGetSubHistory(migrate_api_token)
    \/ \E migrate_api_token \in Tokens : MgGetSitesList(migrate_api_token)

FnNext ==
    \/ FnFilterEpisodes
    \/ FnGetItemNoExistInfo
    \/ FnGetTmdbinfoByDoubanid
    \/ FnCheckAndAddSubscribe

\* the host runs the three plugins side by side; they share no state, so a
\* behaviour follows one of them
Init ==
    /\ plugin \in Plugins
    /\ RankInit /\ EpInitSubscribed /\ MgInit /\ SvInit /\ FnIdle

Next ==
    \/ \E config \in RankConfigs : RankInitPlugin(config)
    \/ RankReload
    \/ RankRefreshStart
    \/ RankFeedBegin
    \/ RankItemStep
    \/ RankRefreshEnd
    \/ \E key \in RankKeys, apikey \in Tokens : RankDeleteHistory(key, apikey)
    \/ \E config \in EpConfigs : EpInitPlugin(config)
    \/ EpRefreshStart
    \/ EpItemStep
    \/ EpRefreshEnd
    \/ \E key \in EpKeys, apikey \in Tokens : EpDeleteHistory(key, apikey)
    \/ \E key \in EpKeys, apikey \in Tokens, answers \in AddAnswers :
          EpAddSubscribeHistory(key, apikey, answers)
    \/ \E key \in EpKeys, apikey \in Tokens : EpSetAllExistHistory(key, apikey)
    \/ \E config \in MgConfigs : MgInitPlugin(config)
    \/ MgStartMigrate
    \/ MgAddSubStep
    \/ MgMigrateEnd
    \/ \E migrate_api_token \in Tokens : MgGetSubHistory(migrate_api_token)
    \/ \E migrate_api_token \in Tokens : MgGetSitesList(migrate_api_token)

Spec == Init /\ [][Next]_vars

InitRank == plugin = "rank" /\ RankInit /\ EpInit /\ MgInit /\ SvInit /\ FnIdle

SpecRank == InitRank /\ [][RankNext]_vars

InitEpisode ==
    plugin = "episode" /\ RankInit /\ EpInitSubscribed /\ MgInit /\ SvInit /\ FnIdle

SpecEpisode == InitEpisode /\ [][EpNext]_vars

InitMigrate == plugin = "migrate" /\ RankInit /\ EpInit /\ MgInit /\ SvInit /\ FnIdle

SpecMigrate == InitMigrate /\ [][MgNext]_vars

\* the two functions of the episode plugin on their own: a call is drawn
\* and applied
FnInit ==
    /\ fn_call \in FilterCalls \cup GapCalls \cup LookupCalls \cup CheckCalls
    /\ plugin = IF fn_call.op \in {"lookup", "check"} THEN "rank" ELSE "episode"
    /\ RankInit /\ EpInit /\ MgInit /\ SvInit
    /\ fn_result = NoResult

SpecFunctions == FnInit /\ [][FnNext]_vars

\* the service side of a plugin on its own: the host's calls, the two
\* triggers and the job instances
SvNext ==
    \/ \E config \in SvConfigs : SvInitPlugin(config)
    \/ SvReload
    \/ SvStopService
    \/ SvShutdownReturns
    \/ SvGetService
    \/ SvOneShotFires
    \/ SvCronFires
    \/ \E j \in Jobs : SvJobItem(j)
    \/ \E j \in Jobs : SvJobEnd(j)

InitService == plugin \in Plugins /\ RankInit /\ EpInit /\ MgInit /\ SvInit /\ FnIdle

SpecService == InitService /\ [][SvNext]_vars
-----------------------------------------------------------------------------
(* Claims about DoubanRankPlus *)

NoDuplicateKeys(history) ==
    \A i, j \in 1..Len(history) :
        i # j => history[i].unique # history[j].unique

\* C1: the persisted history (and the history a run works on) never holds two
\* entries with the same uniqueness key, and a feed item whose key is already
\* recorded adds no entry and triggers no Douban, recognition or subscription
\* call.
C1_NoDuplicateHistory ==
    /\ NoDuplicateKeys(rk_data)
    /\ NoDuplicateKeys(rk_history)
    /\ (rk_last.act = "item" /\ rk_last.recorded) =>
           /\ ~rk_last.appended
           /\ ~rk_last.douban_called
           /\ ~rk_last.recog_called
           /\ rk_last.sub_adds = 0

\* C1 witness: in a second run an item arrives whose key an earlier run has
\* persisted
C1_Witness ==
    /\ rk_runs = 2
    /\ rk_last.act = "item"
    /\ rk_last.recorded
    /\ rk_last.key \in UniqueFlagsOf(rk_data)

\* an item for which the code can consult Douban: it has a title and a Douban
\* id, is not yet recorded, and the recognition source is themoviedb
DoubanEligibleStep ==
    /\ rk_last.act = "item"
    /\ rk_cfg.source = "themoviedb"
    /\ rk_last.has_doubanid
    /\ rk_last.outcome \notin {"notitle", "dup"}

\* C2 as stated: after a rate-limit answer, an item processed within 4200 s
\* of it makes no Douban call, and an item processed more than 4200 s after
\* it makes a Douban call again.
C2_CooldownWindow ==
    (DoubanEligibleStep /\ rk_last.limit_before # NoTime) =>
        (rk_last.douban_called <=> now - rk_last.limit_before > RateLimitWindow)

\* C9 as stated: a feed whose fetch is empty, whose address does not parse or
\* one of whose items raises has its history saved, and the run goes on to
\* the addresses after it.
C9_FeedIsolation ==
    \A i \in 1..Len(rk_feedlog) :
        rk_feedlog[i].outcome \in {"fetch_empty", "parse_failed", "raised"} =>
            /\ rk_feedlog[i].saved
            /\ ~(rk_pc = "idle" /\ i = Len(rk_feedlog)
                 /\ rk_feedlog[i].index < Len(rk_addr_list))

\* C10 as stated: after an item raises, the next item of the same feed is
\* processed.
C10_NextItemProcessed ==
    (rk_last.act = "item" /\ rk_last.outcome = "raised" /\ rk_last.more_items) =>
        rk_pc = "item"

\* C10 amended: when an item raises, the failure is caught by the handler of
\* the feed: the item is not recorded, the rest of the feed is skipped, the
\* history collected so far is persisted and the run moves on to the next
\* address.
C10_FeedAbandoned ==
    (rk_last.act = "item" /\ rk_last.outcome = "raised") =>
        /\ ~rk_last.appended
        /\ rk_pc = "feed"
        /\ rk_item_index = 0
        /\ rk_data = rk_history
        /\ rk_feedlog[Len(rk_feedlog)] =
               [index |-> rk_addr_index - 1, outcome |-> "raised", saved |-> TRUE]

\* C10 witness: the first of two items raises after an earlier feed of the
\* run has added an entry
C10_Witness ==
    /\ rk_last.act = "item"
    /\ rk_last.outcome = "raised"
    /\ rk_last.more_items
    /\ rk_history # <<>>

-----------------------------------------------------------------------------
(* Claims about the endpoints *)

\* the positions of a sequence whose element satisfies Keep, and the
\* sequence made of them in their order
KeptPositions(seq, Keep(_)) == {i \in 1..Len(seq) : Keep(seq[i])}
IsOrderedRest(after, seq, Keep(_)) ==
    LET kept == KeptPositions(seq, Keep)
    IN  /\ Len(after) = Cardinality(kept)
        /\ \A i \in kept :
              after[Cardinality({k \in kept : k < i}) + 1] = seq[i]

\* the rank side of C3
C3_RankDelete ==
    (rk_last.act = "delete_history" /\ rk_last.outcome = "success") =>
        /\ \A i \in 1..Len(rk_data) : rk_data[i].unique # rk_last.key
        /\ IsOrderedRest(rk_data, rk_last.before,
                         LAMBDA h : h.unique # rk_last.key)

\* the episode side of C3
C3_EpisodeDelete ==
    (ep_last.act = "delete_history" /\ ep_last.outcome = "success") =>
        LET old == ep_last.before.value
            new == ep_data.value
        IN  /\ ep_data.stored
            /\ ep_last.key \in DOMAIN old.details
            /\ ep_last.key \notin Range(new.item_unique_flags)
            /\ IsOrderedRest(new.item_unique_flags, old.item_unique_flags,
                             LAMBDA flag : flag # ep_last.key)
            /\ DOMAIN new.details = DOMAIN old.details \ {ep_last.key}
            /\ \A k \in DOMAIN new.details : new.details[k] = old.details[k]

\* C3: delete_history(key, apikey) with the valid token on a non-empty
\* history removes the entry whose uniqueness key is key and leaves every
\* other entry, its content and its place among the others, as it was; in
\* the episode plugin item_unique_flags and details lose exactly that key.
C3_DeleteRemovesOnlyKey == C3_RankDelete /\ C3_EpisodeDelete

\* C3 witness: the episode history held two shows and the named one is
\* deleted
C3_Witness ==
    /\ ep_last.act = "delete_history"
    /\ ep_last.outcome = "success"
    /\ Len(ep_last.before.value.item_unique_flags) = 2
    /\ Len(ep_data.value.item_unique_flags) = 1

\* the rank case of C3 happens as well: one of two entries is deleted
C3_RankCase ==
    /\ rk_last.act = "delete_history"
    /\ rk_last.outcome = "success"
    /\ Len(rk_last.before) = 2
    /\ Len(rk_data) = 1

\* the rank side of C8
C8_Rank ==
    (rk_last.act = "delete_history" /\ rk_last.apikey # API_TOKEN) =>
        /\ rk_last.outcome = "bad_token"
        /\ rk_data = rk_last.before

\* the episode side of C8
C8_Episode ==
    (/\ ep_last.act \in {"delete_history", "add_subscribe_history",
                         "set_all_exist_history"}
     /\ ep_last.apikey # API_TOKEN) =>
        /\ ep_last.outcome = "bad_token"
        /\ ep_data = ep_last.before
        /\ ep_last.add_calls = {}

\* the migration side of C8
C8_Migrate ==
    (/\ mg_last.act \in {"get_sites_list", "get_sub_history"}
     /\ mg_last.apikey # API_TOKEN) =>
        /\ mg_last.outcome = "bad_token"
        /\ mg_last.data = <<>>

\* C8: each endpoint called with a token other than the host's API token
\* answers with the failure response, leaves the persisted history as it
\* was, asks for no subscription and returns no site or history data.
C8_WrongTokenRefused == C8_Rank /\ C8_Episode /\ C8_Migrate

\* C8 witness: the site list is asked for with a wrong token after a
\* migration has stored the sites of the other instance
C8_Witness ==
    /\ mg_last.act = "get_sites_list"
    /\ mg_last.apikey # API_TOKEN
    /\ mg_sites = <<"site1", "site2">>

\* the rank and episode cases of C8 happen as well
C8_RankCase ==
    /\ rk_last.act = "delete_history"
    /\ rk_last.apikey # API_TOKEN
    /\ rk_last.key \in UniqueFlagsOf(rk_data)
C8_EpisodeCase ==
    /\ ep_last.act = "add_subscribe_history"
    /\ ep_last.apikey # API_TOKEN
    /\ ep_data.stored
    /\ ep_last.key \in DOMAIN ep_data.value.details

-----------------------------------------------------------------------------
(* Claims about MigrateSub.__add_sub *)

\* a local subscription carries the item's id (its tmdbid, or its doubanid
\* when the item has no tmdbid)
SharesId(row, item) ==
    IF item.tmdbid # 0 THEN row.tmdbid = item.tmdbid
    ELSE item.doubanid # NoneVal /\ row.doubanid = item.doubanid
PairExists(rows, item) ==
    \E i \in 1..Len(rows) : SharesId(rows[i], item) /\ rows[i].season = item.season
IdUnknown(rows, item) ==
    \A i \in 1..Len(rows) : ~SharesId(rows[i], item)

-----------------------------------------------------------------------------
(* Claims about __filter_episodes and __get_item_no_exist_info *)

\* a date as one number, and the aired set of a list of TMDB episodes said
\* with it
DateNumber(year, month, day) == year * 10000 + month * 100 + day
AiredBefore(episode, current_time) ==
    /\ episode.air_date # NoDate
    /\ DateNumber(episode.air_date[1], episode.air_date[2], episode.air_date[3])
           < DateNumber(current_time.year, current_time.month, current_time.day)
AiredSet(episodes_info, current_time) ==
    {episodes_info[i].episode_number :
        i \in {j \in 1..Len(episodes_info) :
                  AiredBefore(episodes_info[j], current_time)}}

\* C6: the aired set holds exactly the numbers of the episodes whose air
\* date is strictly before the current date; an episode airing today or
\* later, or without an air date, is not in it.
C6_AiredStrictlyBeforeToday ==
    (fn_call.op = "filter" /\ fn_result.done) =>
        Range(fn_result.episodes) = AiredSet(fn_call.episodes_info,
                                             fn_call.current_time)

\* C6 witness: of three episodes one aired yesterday, one airs today and one
\* has no date; only the first is returned
C6_Witness ==
    /\ fn_call.op = "filter"
    /\ fn_result.done
    /\ fn_call.current_time.day = 1
    /\ fn_call.episodes_info =
          <<Ep(1, <<2023, 12, 31>>), Ep(2, <<2024, 1, 1>>), Ep(3, NoDate)>>
    /\ fn_result.episodes = <<1>>

\* the seasons of a finished call of __get_item_no_exist_info that reached
\* the season loop, what the library has of a season, its aired set, and
\* the entries of the result
GapDone == fn_call.op = "gap" /\ fn_result.done /\ fn_result.ok
LibraryOf(season) ==
    IF season \in DOMAIN fn_call.item_dict.seasoninfo
    THEN Range(fn_call.item_dict.seasoninfo[season]) ELSE {}
AiredOf(season) == AiredSet(fn_call.episodes[season], fn_call.current_time)
Recorded == fn_result.info.season_episode_no_exist_info

\* C5: for a season with at least one episode in the library and no
\* subscription, the recorded missing episodes are, as a set, the aired set
\* minus the library's episodes, and nothing is recorded when that is empty.
C5_MissingIsAiredMinusExisting ==
    GapDone =>
        \A season \in fn_call.tmdbinfo.seasons :
            (LibraryOf(season) # {} /\ season \notin fn_call.subscribed) =>
                IF AiredOf(season) \ LibraryOf(season) = {}
                THEN season \notin DOMAIN Recorded
                ELSE /\ season \in DOMAIN Recorded
                     /\ Recorded[season].episode_no_exist =
                            AiredOf(season) \ LibraryOf(season)

\* C5 witness: the library has episode 1 of a season of which three have
\* aired; episodes 2 and 3 are recorded
C5_Witness ==
    /\ GapDone
    /\ LibraryOf(1) = {1}
    /\ AiredOf(1) = {1, 2, 3}
    /\ 1 \in DOMAIN Recorded
    /\ Recorded[1].episode_no_exist = {2, 3}

\* C7: per season known to TMDB: no entry when nothing has aired; no entry
\* when the host reports a subscription; else, with no episode in the
\* library, an entry with an empty missing list and episode_total the size
\* of the aired set; else an entry only when the missing set is not empty.
C7_SeasonEntryRules ==
    GapDone =>
        \A season \in fn_call.tmdbinfo.seasons :
            /\ AiredOf(season) = {} => season \notin DOMAIN Recorded
            /\ season \in fn_call.subscribed => season \notin DOMAIN Recorded
            /\ (/\ AiredOf(season) # {}
                /\ season \notin fn_call.subscribed
                /\ LibraryOf(season) = {}) =>
                   /\ season \in DOMAIN Recorded
                   /\ Recorded[season] =
                          [season |-> season, episode_no_exist |-> {},
                           episode_total |-> Cardinality(AiredOf(season))]
            /\ (/\ AiredOf(season) # {}
                /\ season \notin fn_call.subscribed
                /\ LibraryOf(season) # {}) =>
                   (season \in DOMAIN Recorded
                        <=> AiredOf(season) \ LibraryOf(season) # {})

\* C7 witness: season 1 has a gap but is subscribed and gets no entry,
\* season 2 has aired and has no episode in the library and is recorded as
\* entirely missing
C7_Witness ==
    /\ GapDone
    /\ fn_call.subscribed = {1}
    /\ LibraryOf(1) # {}
    /\ AiredOf(1) \ LibraryOf(1) # {}
    /\ LibraryOf(2) = {}
    /\ DOMAIN Recorded = {2}
    /\ Recorded[2].episode_no_exist = {}
    /\ Recorded[2].episode_total = Cardinality(AiredOf(2))

-----------------------------------------------------------------------------
(* DoubanRankPlus: the rate limit of the Douban interface *)

\* the last step processed an item for which Douban answered with its
\* rate limit
RateLimitedStep == rk_last.act = "item" /\ rk_last.limit_hit

\* C11: when Douban answers an item with its rate limit and
\* is_exit_ip_rate_limit is set, the run ends at that item: the job is idle,
\* no entry was written for the item and its key is in no saved entry, so the
\* next run processes it again, and what the run appended before is saved;
\* when the option is not set, generic recognition is called for the same
\* item and, unless that call raises, the run goes on with the next item or
\* the next address
C11_RateLimitExitOption ==
    RateLimitedStep =>
        IF rk_cfg.is_exit_ip_rate_limit
        THEN /\ rk_last.outcome = "exit"
             /\ rk_pc = "idle"
             /\ ~rk_last.appended
             /\ ~rk_last.recog_called
             /\ rk_last.key \notin UniqueFlagsOf(rk_data)
             /\ rk_data = rk_history
             /\ rk_feedlog[Len(rk_feedlog)].saved
        ELSE /\ rk_last.recog_called
             /\ rk_last.outcome \in {"unrecognized", "recorded", "raised"}
             /\ rk_last.outcome # "raised" =>
                    /\ rk_last.appended
                    /\ rk_last.more_items => rk_pc = "item"
                    /\ rk_pc # "idle"

\* C11 witness: the second item of a feed meets the rate limit with the option
\* set, and the entry of the first item is saved
C11_Witness ==
    /\ RateLimitedStep
    /\ rk_cfg.is_exit_ip_rate_limit
    /\ rk_pc = "idle"
    /\ Len(rk_data) > 0
    /\ rk_steps = 2

-----------------------------------------------------------------------------
(* DoubanRankPlus: items that are not recognised *)

\* the last step processed an item for which the Douban-to-TMDB lookup or the
\* recognition it asked for came back empty
UnrecognisedStep == rk_last.act = "item" /\ rk_last.empty_answer # "none"

\* the entries of a history list with a given key
EntriesOf(history, key) == {i \in 1..Len(history) : history[i].unique = key}

\* C12: on each recognition path (Douban-to-TMDB lookup empty, recognition by
\* TMDB id, by Douban id or generic recognition empty) the item that is not
\* recognised gets exactly one history entry, the last one, with status
\* UNRECOGNIZED and tmdbid "0"; its key is in the processed set, no
\* subscription is added for it, nothing is raised and the run goes on with
\* the next item
C12_UnrecognisedRecorded ==
    UnrecognisedStep =>
        /\ rk_last.outcome = "unrecognized"
        /\ rk_last.appended
        /\ Len(rk_history) > 0
        /\ rk_history[Len(rk_history)].unique = rk_last.key
        /\ rk_history[Len(rk_history)].status = UNRECOGNIZED
        /\ rk_history[Len(rk_history)].tmdbid = "0"
        /\ Cardinality(EntriesOf(rk_history, rk_last.key)) = 1
        /\ rk_last.key \in rk_unique_flags
        /\ rk_last.sub_adds = 0
        /\ rk_pc # "idle"
        /\ rk_last.more_items => rk_pc = "item" /\ rk_item_index <= rk_n_items

\* C12 witness: Douban gave the TMDB data of the item, recognition by that
\* TMDB id found nothing, and the next item of the feed is up
C12_Witness ==
    /\ UnrecognisedStep
    /\ rk_last.douban_called
    /\ rk_last.empty_answer = "recognize"
    /\ rk_last.outcome = "unrecognized"
    /\ rk_pc = "item"

-----------------------------------------------------------------------------
(* DoubanRankPlus: the 'clear history' switch *)

\* C15: the 'clear history' switch is one-shot: init_plugin with enabled and
\* clear set arms the clear flag and the configuration stored afterwards has
\* clear = False; initialising again from the stored configuration arms no
\* clear that was not armed before; the next run with an address empties the
\* history and takes the flag down
C15_ClearOneShot ==
    /\ (rk_last.act = "init_plugin" /\ rk_last.clear_asked) =>
           /\ rk_clearflag
           /\ ~rk_cfg.clear
           /\ ~rk_saved.clear
    /\ (rk_last.act = "init_plugin" /\ rk_last.reloaded) =>
           (rk_clearflag => rk_last.clearflag_before)
    /\ rk_last.act = "start" =>
           /\ ~rk_clearflag
           /\ rk_last.clearflag_before => rk_history = <<>> /\ rk_data = <<>>

\* the part of C15 that the code keeps: the flag is armed by init_plugin, the
\* in-memory switch is off, and the run that takes the flag empties the history
C15_FlagConsumed ==
    /\ (rk_last.act = "init_plugin" /\ rk_last.clear_asked) =>
           rk_clearflag /\ ~rk_cfg.clear
    /\ rk_last.act = "start" =>
           /\ ~rk_clearflag
           /\ rk_last.clearflag_before => rk_history = <<>> /\ rk_data = <<>>

-----------------------------------------------------------------------------
(* DoubanRankPlus: a run only appends to the history *)

IsPrefix(s, t) == Len(s) <= Len(t) /\ SubSeq(t, 1, Len(s)) = s

\* C16: a refresh run that starts with no clear flag up only appends: it
\* starts from the stored list as it is, every step of the run leaves the
\* list it works on as a prefix of the new one, whatever status the new entry
\* has, and what the run stores is that list
C16_RunOnlyAppends ==
    [][ /\ (rk_pc = "idle" /\ rk_pc' # "idle"
            /\ ~rk_clearflag /\ ~rk_clearflag_unrecognized) =>
               rk_history' = rk_data /\ rk_data' = rk_data
        /\ rk_pc # "idle" =>
               /\ IsPrefix(rk_history, rk_history')
               /\ (rk_data' # rk_data /\ rk_last'.act # "delete_history") =>
                      rk_data' = rk_history'
      ]_vars

\* C16 witness: no clear was ever asked for, and the second run has appended
\* an entry behind the one the first run stored
C16_Witness ==
    /\ rk_inits = 1
    /\ ~rk_saved.clear /\ ~rk_saved.clear_unrecognized
    /\ rk_runs = 2
    /\ rk_last.act = "item"
    /\ rk_last.appended
    /\ Len(rk_data) >= 2
    /\ rk_data[1].status # rk_data[Len(rk_data)].status

-----------------------------------------------------------------------------
(* EpisodeNoExist: one record per key *)

NoDuplicates(s) == \A i, j \in 1..Len(s) : s[i] = s[j] => i = j

\* the last step was the scan of an item whose key the stored history had
ScannedRecordedItem ==
    /\ ep_last.act = "item"
    /\ ep_last.before.stored
    /\ ep_last.key \in Range(ep_last.before.value.item_unique_flags)

\* C17: after any sequence of refresh runs and calls of delete_history,
\* set_all_exist_history and add_subscribe_history the stored history has one
\* record per key: item_unique_flags has no duplicates and lists exactly the
\* keys of details; a refresh skips an item whose key is recorded and leaves
\* the stored history as it is
C17_OneRecordPerKey ==
    /\ ep_data.stored =>
           /\ NoDuplicates(ep_data.value.item_unique_flags)
           /\ Range(ep_data.value.item_unique_flags) = DOMAIN ep_data.value.details
    /\ ScannedRecordedItem =>
           /\ ep_last.outcome = "skipped"
           /\ ep_last.add_calls = {}
           /\ ep_data = ep_last.before

\* C17 witness: a second refresh run meets the item the first run recorded
C17_Witness ==
    /\ ScannedRecordedItem
    /\ ep_runs = 2
    /\ ep_data.stored
    /\ ep_last.key \in DOMAIN ep_data.value.details

-----------------------------------------------------------------------------
(* MigrateSub: migrating twice *)

\* the table has the row that the migration makes of the item
HasCopyOf(rows, item) ==
    \E is_with_sites \in BOOLEAN : NewRow(item, is_with_sites) \in Range(rows)

\* C18: the migration is idempotent on rows: an item of the payload whose
\* copy is in the Subscribe table adds no row, and a subscription history
\* payload whose items all have their copies in the SubscribeHistory table
\* adds no row, also for items with a Douban id only or with neither id
C18_MigrationIdempotent ==
    /\ (mg_last.act = "add_sub" /\ HasCopyOf(mg_last.before, mg_last.item)) =>
           ~mg_last.returned /\ mg_subs = mg_last.before
    /\ (/\ mg_last.act = "end"
        /\ mg_last.outcome = "sub_history"
        /\ \A i \in 1..Len(mg_last.data) :
              HasCopyOf(mg_last.before, mg_last.data[i])) =>
           mg_sub_history = mg_last.before

\* the items C18 fails for have neither a TMDB id nor a Douban id
C18_OnlyWithoutId ==
    /\ (/\ mg_last.act = "add_sub"
        /\ HasCopyOf(mg_last.before, mg_last.item)
        /\ (mg_last.item.tmdbid # 0 \/ Truthy(mg_last.item.doubanid))) =>
           ~mg_last.returned /\ mg_subs = mg_last.before
    /\ (/\ mg_last.act = "end"
        /\ mg_last.outcome = "sub_history"
        /\ \A i \in 1..Len(mg_last.data) :
              /\ HasCopyOf(mg_last.before, mg_last.data[i])
              /\ (mg_last.data[i].tmdbid # 0 \/ Truthy(mg_last.data[i].doubanid))) =>
           mg_sub_history = mg_last.before

-----------------------------------------------------------------------------
(* DoubanRankPlus: from a Douban id to the TMDB data *)

LookupDone == fn_call.op = "lookup" /\ fn_result.done

\* the calls of a kind among the calls made, in their order
CallsOf(kinds) == SelectSeq(fn_result.calls, LAMBDA c : c[1] \in kinds)

\* the names match_tmdbinfo was called with, in their order
TriedNames ==
    [i \in 1..Len(CallsOf({"match_tmdbinfo"})) |-> CallsOf({"match_tmdbinfo"})[i][2]]

\* the Douban payload the matching starts from: the movie detail unless the
\* item is a TV item or the movie lookup gave nothing
UsedDetail ==
    IF fn_call.lookup.mtype = "TV" \/ ~fn_call.lookup.movie.present
    THEN fn_call.lookup.tv ELSE fn_call.lookup.movie

\* the rank of a name among original title, title, Chinese name, English
\* name: the first place it holds
NameRank(name) ==
    LET order == <<UsedDetail.original_title, UsedDetail.title,
                   fn_call.lookup.cn_name, fn_call.lookup.en_name>>
    IN  CHOOSE i \in 1..4 : order[i] = name /\ \A j \in 1..(i - 1) : order[j] # name

\* C20: the movie detail is looked up first and the TV detail only when the
\* movie lookup gave nothing and no rate limit (a TV item: the TV detail
\* only); TMDB matching goes through original title, title, Chinese name and
\* English name in this order without duplicates and empty names, stops at
\* the first match and returns it; a rate-limit payload gives no data, the
\* rate-limit mark and no TMDB matching
C20_ResolutionOrder ==
    (LookupDone /\ Truthy(fn_call.lookup.doubanid)) =>
        LET l == fn_call.lookup
            details == CallsOf({"movie_detail", "tv_detail"})
            tried == TriedNames
            limited == UsedDetail.present
                       /\ "subject_ip_rate_limit" \in Range(UsedDetail.msg)
            names == {n \in {UsedDetail.original_title, UsedDetail.title,
                             l.cn_name, l.en_name} : Truthy(n)}
        IN  /\ details = IF l.mtype = "TV" THEN << <<"tv_detail", l.doubanid>> >>
                         ELSE IF l.movie.present
                         THEN << <<"movie_detail", l.doubanid>> >>
                         ELSE << <<"movie_detail", l.doubanid>>,
                                 <<"tv_detail", l.doubanid>> >>
            /\ fn_result.calls = details \o CallsOf({"match_tmdbinfo"})
            /\ fn_result.is_ip_rate_limit = limited
            /\ limited => ~fn_result.tmdbinfo.found /\ tried = <<>>
            /\ ~UsedDetail.present => ~fn_result.tmdbinfo.found /\ tried = <<>>
            /\ (UsedDetail.present /\ ~limited) =>
                   /\ Range(tried) \subseteq names
                   /\ \A i, j \in 1..Len(tried) :
                         i < j => NameRank(tried[i]) < NameRank(tried[j])
                   /\ \A i \in 1..(Len(tried) - 1) : tried[i] \notin l.matching
                   /\ IF names \cap l.matching = {}
                      THEN ~fn_result.tmdbinfo.found /\ Range(tried) = names
                      ELSE /\ fn_result.tmdbinfo.found
                           /\ fn_result.tmdbinfo.name = tried[Len(tried)]
                           /\ fn_result.tmdbinfo.name \in l.matching
                           /\ \A n \in names :
                                 NameRank(n) < NameRank(fn_result.tmdbinfo.name)
                                     => n \in Range(tried)

\* C20 witness: the movie lookup gives nothing, the TV detail has a title,
\* the title has no match and the Chinese name, tried next, has one
C20_Witness ==
    /\ LookupDone
    /\ fn_call.lookup.mtype = "MOVIE"
    /\ fn_result.calls = << <<"movie_detail", "d1">>, <<"tv_detail", "d1">>,
                            <<"match_tmdbinfo", "T">>, <<"match_tmdbinfo", "C">> >>
    /\ fn_result.tmdbinfo.found
    /\ fn_result.tmdbinfo.name = "C"
    /\ "E" \in fn_call.lookup.matching

-----------------------------------------------------------------------------
(* The service side: stopping, overlapping jobs, the 'run now' switch *)

\* stop_service was called while job j of the rank plugin was running, and
\* the job is still running
StoppedWhileRunning(j) ==
    plugin = "rank" /\ sv_job[j] = "running" /\ sv_mark[j] # NoMark

\* C13: when stop_service is called while a refresh job of the rank plugin
\* runs, started by the plugin's one-shot scheduler or by the host from the
\* cron service, the job processes no further item: it sees the stop flag
\* before the next item and ends
C13_StopEndsJob ==
    \A j \in Jobs : StoppedWhileRunning(j) => sv_items[j] = sv_mark[j][1]

\* the part of C13 that the code keeps: the job of the plugin's own
\* scheduler processes no item after stop_service was called
C13_OneShotStops ==
    StoppedWhileRunning(OneShot) => sv_items[OneShot] = sv_mark[OneShot][1]

\* C14: at most one instance of a plugin's job runs at any time, also when
\* the one-shot job and the cron job are both due and when init_plugin is
\* called during a run
C14_OneInstance == Cardinality({j \in Jobs : sv_job[j] = "running"}) <= 1

\* C19: init_plugin with onlyonce schedules exactly one run on a started
\* scheduler, enabled or not, and leaves onlyonce off in the plugin and in the
\* stored configuration; init_plugin from the stored configuration schedules
\* none; get_service of the rank and episode plugins returns one job with the
\* configured cron, or "0 8 * * *" without one, when the plugin is enabled and
\* nothing when it is not
C19_RunNowOneShot ==
    /\ (sv_last.act = "init_plugin" /\ sv_last.asked_onlyonce) =>
           /\ sv_last.add_jobs = 1
           /\ sv_job[OneShot] = "pending"
           /\ sv_scheduler = "running"
           /\ ~sv_cfg.onlyonce
           /\ ~sv_saved.onlyonce
    /\ (sv_last.act = "init_plugin" /\ sv_last.reloaded) =>
           /\ sv_last.add_jobs = 0
           /\ sv_job[OneShot] = "none"
    /\ (sv_last.act = "get_service" /\ plugin \in {"rank", "episode"}) =>
           IF sv_cfg.enabled
           THEN /\ Len(sv_services) = 1
                /\ sv_services[1].trigger =
                       IF sv_cfg.cron # "" THEN sv_cfg.cron ELSE "0 8 * * *"
           ELSE sv_services = <<>>

\* C19 witness: the plugin is not enabled, a first 'run now' has run, a
\* second init_plugin with onlyonce has its job scheduled and the stored
\* switch is off
C19_Witness ==
    /\ sv_last.act = "init_plugin"
    /\ sv_last.asked_onlyonce
    /\ ~sv_last.asked_enabled
    /\ sv_inits = 2
    /\ sv_job[OneShot] = "pending"
    /\ sv_items[OneShot] > 0
    /\ ~sv_saved.onlyonce

-----------------------------------------------------------------------------
(* Claims C21..C30 *)

\* the item step that has just recorded a recognised TV show with at least
\* one season, with is_seasons_all on, that passes the year and the rating
\* filter and of which nothing was in the library or subscribed before
AllSeasonsCase ==
    /\ rk_last.act = "item"
    /\ rk_last.outcome = "recorded"
    /\ rk_cfg.is_seasons_all
    /\ rk_last.media.type = "TV"
    /\ rk_last.media.number_of_seasons >= 1
    /\ (rk_cfg.release_year = 0 \/ rk_last.media.year_int >= rk_cfg.release_year)
    /\ (rk_cfg.vote = 0 \/ rk_last.media.vote_average >= rk_cfg.vote)
    /\ ~rk_last.exist_flag
    /\ rk_last.subscribed = {}

\* C21: with is_seasons_all, a recognised TV show with N >= 1 seasons that
\* passes the filters and of which nothing is in the library or subscribed
\* before has subscribechain.add called once for each season 1..N, in turn
C21_EverySeasonSubscribed ==
    AllSeasonsCase =>
        rk_last.sub_seasons = [i \in 1..rk_last.media.number_of_seasons |-> i]

\* C21, what the code does: season 1 is subscribed first, and the seasons
\* that are subscribed come in ascending order
C21_FirstSeasonSubscribed ==
    AllSeasonsCase =>
        /\ rk_last.sub_seasons # <<>>
        /\ rk_last.sub_seasons[1] = 1
        /\ \A i \in 1..Len(rk_last.sub_seasons) - 1 :
               rk_last.sub_seasons[i] < rk_last.sub_seasons[i + 1]

\* C21: a case where every season is subscribed (the title names the last
\* season)
C21_AllAdded ==
    /\ AllSeasonsCase
    /\ rk_last.media.number_of_seasons = 2
    /\ rk_last.sub_seasons = <<1, 2>>

\* the call of __checke_and_add_subscribe that has returned, and its tests
CheckDone == fn_call.op = "check" /\ fn_result.done
YearOk ==
    fn_call.check.cfg.release_year = 0
    \/ fn_call.check.media.year_int >= fn_call.check.cfg.release_year
RatingOk ==
    fn_call.check.cfg.vote = 0
    \/ fn_call.check.media.vote_average >= fn_call.check.cfg.vote

\* C22: subscribechain.add is called for a recognised media only if the year
\* and the rating pass their filters (a filter set to 0 is off) and the host
\* reports the media neither in the library nor subscribed; otherwise nothing
\* is added and the status is the first that applies of YEAR_NOT_MATCH,
\* RATING_NOT_MATCH, MEDIA_EXISTS, SUBSCRIPTION_EXISTS
C22_AddOnlyWhenAllPass ==
    CheckDone =>
        IF YearOk /\ RatingOk /\ ~fn_call.check.exist_flag
           /\ ~fn_call.check.sub_exists
        THEN fn_result.sub_adds = 1 /\ fn_result.status = SUBSCRIPTION_ADDED
        ELSE /\ fn_result.sub_adds = 0
             /\ fn_result.status =
                    IF ~YearOk THEN YEAR_NOT_MATCH
                    ELSE IF ~RatingOk THEN RATING_NOT_MATCH
                    ELSE IF fn_call.check.exist_flag THEN MEDIA_EXISTS
                    ELSE SUBSCRIPTION_EXISTS

\* C22 witness: year and rating both fail and the media is in the library
\* and subscribed; the call has answered YEAR_NOT_MATCH without an add
C22_Witness ==
    /\ CheckDone
    /\ ~YearOk /\ ~RatingOk
    /\ fn_call.check.exist_flag /\ fn_call.check.sub_exists
    /\ fn_result.status = YEAR_NOT_MATCH
    /\ fn_result.sub_adds = 0

\* the record of the show in a persisted history, and whether it carries
\* the status ADDED_RSS
ShowKey == ItemUniqueFlag(MediaServer, ShowA)
AddedRss(data) ==
    /\ data.stored
    /\ ShowKey \in DOMAIN data.value.details
    /\ data.value.details[ShowKey].exist_status = HistoryStatus_ADDED_RSS

\* add_subscribe_history has just succeeded for a record that was in status
\* ADDED_RSS already
SubscribedAgain ==
    /\ ep_last.act = "add_subscribe_history"
    /\ ep_last.outcome = "success"
    /\ AddedRss(ep_last.before)

\* C23: subscribechain.add is never called for a season the host reports as
\* subscribed, so no season ever has a second subscription; a successful
\* add_subscribe_history leaves the record in status ADDED_RSS, and a
\* repeated one adds nothing
C23_SubscribeIdempotent ==
    /\ \A s \in DOMAIN ep_subs : ep_subs[s] <= 1
    /\ \A s \in ep_last.add_calls : ep_last.subs_before[s] = 0
    /\ (ep_last.act = "add_subscribe_history" /\ ep_last.outcome = "success") =>
           AddedRss(ep_data)
    /\ SubscribedAgain =>
           /\ ep_last.add_calls = {}
           /\ ep_subs = ep_last.subs_before

\* C23 witness: the plugin only records, a first add_subscribe_history has
\* subscribed both seasons of the record, and a second one has succeeded
C23_Witness ==
    /\ SubscribedAgain
    /\ ep_cfg.no_exist_action = NoExistAction_ONLY_HISTORY
    /\ ep_inits = 1
    /\ ep_subs = (1 :> 1) @@ (2 :> 1)
    /\ AddedRss(ep_data)

\* add_subscribe_history has just gone through the seasons of the show's
\* record; the seasons of that record whose missing-episode list is empty
SubscribeCall ==
    /\ ep_last.act = "add_subscribe_history"
    /\ ep_last.outcome \in {"success", "failed"}
    /\ ShowKey \in DOMAIN ep_last.before.value.details
RecordSeasons ==
    ep_last.before.value.details[ShowKey].tv_no_exist_info
        .season_episode_no_exist_info
WholeSeasons == {s \in DOMAIN RecordSeasons : RecordSeasons[s].episode_no_exist = {}}

\* a season the loop reaches and the host does not hold a subscription for
Due(s) ==
    /\ ep_last.subs_before[s] = 0
    /\ \A f \in DOMAIN RecordSeasons : f < s => ep_subs[f] > 0

\* C24: with the history data type 'non-all-missing' a season whose
\* missing-episode list is empty is skipped and not subscribed; with any other
\* type such a season is subscribed
C24_WholeSeasonSkipped ==
    SubscribeCall =>
        IF ep_cfg.history_type = HistoryDataTypeValue("NOT_ALL_NO_EXIST")
        THEN WholeSeasons \cap ep_last.add_calls = {}
        ELSE \A s \in WholeSeasons : Due(s) => s \in ep_last.add_calls

\* C24, what the code does: such a season is subscribed whatever the history
\* data type is
C24_NeverSkipped ==
    SubscribeCall => \A s \in WholeSeasons : Due(s) => s \in ep_last.add_calls

\* C24: the type is 'non-all-missing' and subscribechain.add was called for a
\* season without a missing-episode list
C24_SubscribedAnyway ==
    /\ SubscribeCall
    /\ ep_cfg.history_type = HistoryDataTypeValue("NOT_ALL_NO_EXIST")
    /\ WholeSeasons \cap ep_last.add_calls # {}

\* a migration run that was started with URL and token has just ended: at
\* once, for want of subscriptions, or after the list was gone through
RunEnded ==
    \/ mg_last.act = "start" /\ mg_last.outcome = "no_list"
    \/ mg_last.act = "end"

\* the switch after a run with is_with_sub_history that went into the history
\* migration: off once a history list was processed, on when none was obtained
HistorySwitch ==
    IF mg_last.data # <<>> THEN ~mg_cfg.is_with_sub_history
    ELSE mg_cfg.is_with_sub_history

\* C25: every migration run started with URL, token and is_with_sub_history
\* executes the subscription-history migration, whether or not a subscription
\* was fetched or added, and the option is switched off (and saved) after a
\* history list was processed and stays on only when no history was obtained
C25_HistoryMigrated ==
    (RunEnded /\ mg_last.with_history) =>
        /\ mg_last.history_run
        /\ HistorySwitch

\* C25, what the code does: the history migration is executed in the runs
\* that fetched at least one subscription, added or not
C25_HistoryAfterList ==
    (mg_last.act = "end" /\ mg_last.with_history) =>
        /\ mg_last.history_run
        /\ HistorySwitch

\* C25: a run with is_with_sub_history has ended for want of subscriptions
\* and the option is still on
C25_HistoryLeftOut ==
    /\ mg_last.act = "start"
    /\ mg_last.outcome = "no_list"
    /\ mg_last.with_history
    /\ mg_cfg.is_with_sub_history

\* C26: the local site table changes only at the end of a run with
\* is_with_sites in which a subscription was added and the fetched site list
\* is not empty, after every item of the subscription list was processed, and
\* then it holds exactly the fetched sites; when the site list comes back
\* empty the table is left as it was
C26_SitesResetStep ==
    /\ mg_sites' # mg_sites =>
           /\ mg_pc = "add" /\ mg_left = 0
           /\ mg_cfg.is_with_sites
           /\ mg_add_count > 0
           /\ mg_last'.ret_sites # <<>>
           /\ mg_sites' = mg_last'.ret_sites
    /\ (mg_last'.act = "end" /\ mg_last'.sites_run /\ mg_last'.ret_sites = <<>>) =>
           mg_sites' = mg_sites
C26_SitesReset == [][C26_SitesResetStep]_vars

\* C26 witness: a run with is_with_sites that added a subscription has
\* replaced the local sites by the fetched ones
C26_Witness ==
    /\ mg_last.act = "end"
    /\ mg_last.with_sites
    /\ mg_last.add_count > 0
    /\ mg_last.sites_before = <<"local">>
    /\ mg_last.ret_sites = <<"site1", "site2">>
    /\ mg_sites = <<"site1", "site2">>

\* C26: a run with is_with_sites that added a subscription fetched an empty
\* site list
C26_EmptyFetch ==
    /\ mg_last.act = "end"
    /\ mg_last.sites_run
    /\ mg_last.ret_sites = <<>>
    /\ mg_sites # <<>>

\* the check run has just recorded a newly scanned TV item: its record, the
\* missing-season map of the record, and whether every season of the map has
\* a subscription now
ItemRecorded == ep_last.act = "item" /\ ep_last.outcome # "skipped"
NewRecord == ep_data.value.details[ep_last.key]
MissingMap == NewRecord.tv_no_exist_info.season_episode_no_exist_info
AllSubscribed ==
    /\ Truthy(NewRecord.tv_no_exist_info.year)
    /\ \A s \in DOMAIN MissingMap : ep_subs[s] > 0

\* C27: a newly scanned TV item without TMDB id or TMDB data is recorded
\* FAILED and one without a missing season ALL_EXIST; one with missing
\* episodes is recorded NO_EXIST with 'record only' and ALL_EXIST with 'mark
\* as existing', in both cases without a subscription, and with 'add
\* subscribe' ADDED_RSS exactly when the subscription check or add succeeded
\* for every missing season, NO_EXIST otherwise
C27_StatusByAction ==
    ItemRecorded =>
        /\ NewRecord.exist_status = ep_last.outcome
        /\ IF NewRecord.tv_no_exist_info.tmdbid = 0 \/ ~ep_last.recognized
              \/ ~ep_last.ok
           THEN ep_last.outcome = HistoryStatus_FAILED
           ELSE IF MissingMap = NoSeasonInfo
           THEN ep_last.outcome = HistoryStatus_ALL_EXIST
           ELSE IF ep_cfg.no_exist_action = NoExistAction_ADD_SUBSCRIBE
           THEN ep_last.outcome = IF AllSubscribed THEN HistoryStatus_ADDED_RSS
                                  ELSE HistoryStatus_NO_EXIST
           ELSE /\ ep_last.add_calls = {}
                /\ ep_subs = ep_last.subs_before
                /\ ep_last.outcome =
                       IF ep_cfg.no_exist_action = NoExistAction_SET_ALL_EXIST
                       THEN HistoryStatus_ALL_EXIST
                       ELSE HistoryStatus_NO_EXIST

\* C27 witness: with 'add subscribe' the add for season 2 was refused after
\* season 1 was subscribed, and the item is recorded NO_EXIST
C27_Witness ==
    /\ ItemRecorded
    /\ ep_cfg.no_exist_action = NoExistAction_ADD_SUBSCRIBE
    /\ DOMAIN MissingMap = {1, 2}
    /\ ep_last.add_calls = {1, 2}
    /\ ep_subs = (1 :> 1) @@ (2 :> 0)
    /\ ep_last.outcome = HistoryStatus_NO_EXIST

\* C27: the other cases: 'record only' and 'mark as existing' with missing
\* episodes, an item without TMDB id, and an item without a year
C27_RecordOnly ==
    /\ ItemRecorded /\ ep_last.ok /\ MissingMap # NoSeasonInfo
    /\ ep_cfg.no_exist_action = NoExistAction_ONLY_HISTORY
    /\ ep_last.outcome = HistoryStatus_NO_EXIST
C27_MarkExisting ==
    /\ ItemRecorded /\ ep_last.ok /\ MissingMap # NoSeasonInfo
    /\ ep_cfg.no_exist_action = NoExistAction_SET_ALL_EXIST
    /\ ep_last.outcome = HistoryStatus_ALL_EXIST
C27_Subscribed ==
    /\ ItemRecorded /\ ep_last.ok /\ MissingMap # NoSeasonInfo
    /\ ep_cfg.no_exist_action = NoExistAction_ADD_SUBSCRIBE
    /\ ep_last.add_calls # {}
    /\ ep_last.outcome = HistoryStatus_ADDED_RSS
C27_NoYear ==
    /\ ItemRecorded /\ ep_last.ok /\ MissingMap # NoSeasonInfo
    /\ ep_cfg.no_exist_action = NoExistAction_ADD_SUBSCRIBE
    /\ ~Truthy(NewRecord.tv_no_exist_info.year)
    /\ ep_last.outcome = HistoryStatus_NO_EXIST

\* add_subscribe_history has just answered for a stored history
AddHistoryAnswered ==
    /\ ep_last.act = "add_subscribe_history"
    /\ ep_last.outcome \in {"success", "failed"}

\* C28: add_subscribe_history is all-or-nothing: a failure leaves the host's
\* subscriptions and the persisted history as they were, and after a success
\* every season of the record's missing map has a subscription and the
\* record's status is ADDED_RSS
C28_AllOrNothing ==
    AddHistoryAnswered =>
        IF ep_last.outcome = "failed"
        THEN ep_subs = ep_last.subs_before /\ ep_data = ep_last.before
        ELSE LET record == ep_data.value.details[ep_last.key]
                 map == record.tv_no_exist_info.season_episode_no_exist_info
             IN  /\ record.exist_status = HistoryStatus_ADDED_RSS
                 /\ \A s \in DOMAIN map : ep_subs[s] > 0

\* C28: the success half alone
C28_SuccessComplete ==
    (AddHistoryAnswered /\ ep_last.outcome = "success") =>
        LET record == ep_data.value.details[ep_last.key]
            map == record.tv_no_exist_info.season_episode_no_exist_info
        IN  /\ record.exist_status = HistoryStatus_ADDED_RSS
            /\ \A s \in DOMAIN map : ep_subs[s] > 0

\* C28: add_subscribe_history answered with a failure after it had created
\* the subscription of season 1
C28_PartialFailure ==
    /\ AddHistoryAnswered
    /\ ep_last.outcome = "failed"
    /\ ep_last.subs_before = NoSubscriptions
    /\ ep_subs = (1 :> 1) @@ (2 :> 0)
    /\ ep_data = ep_last.before

\* the persisted records other than the one the last step of the check run
\* has written
OtherKeys(data) == DOMAIN data.value.details \ {ep_last.key}

\* C29: a change made through an endpoint while a check run is in progress
\* is durable: the save of a later step of the run writes its own record
\* only, it neither restores a record that delete_history has removed from
\* the persisted history nor overwrites a status set by set_all_exist_history
C29_ApiChangeDurable ==
    ItemRecorded =>
        /\ OtherKeys(ep_data) = OtherKeys(ep_last.before)
        /\ \A k \in OtherKeys(ep_data) :
              ep_data.value.details[k] = ep_last.before.value.details[k]

\* C29: the run has recorded an item and with it restored a record that was
\* not in the persisted history before the step
C29_DeletedRestored ==
    /\ ItemRecorded
    /\ ep_last.before.stored
    /\ OtherKeys(ep_data) \ OtherKeys(ep_last.before) # {}

\* C29: the run has recorded an item and with it put back the NO_EXIST status
\* of a record that was ALL_EXIST in the persisted history before the step
C29_StatusOverwritten ==
    /\ ItemRecorded
    /\ \E k \in OtherKeys(ep_data) \cap OtherKeys(ep_last.before) :
          /\ ep_last.before.value.details[k].exist_status = HistoryStatus_ALL_EXIST
          /\ ep_data.value.details[k].exist_status = HistoryStatus_NO_EXIST

\* a run has just copied a fetched subscription history
HistoryCopied == mg_last.act = "end" /\ mg_last.outcome = "sub_history"

\* the SubscribeHistory table has a row for the payload row: the same TMDB id
\* and season, or, for a payload row without TMDB id, the same Douban id
HasHistoryRow(rows, item) ==
    IF item.tmdbid # 0
    THEN \E j \in 1..Len(rows) :
            rows[j].tmdbid = item.tmdbid /\ rows[j].season = item.season
    ELSE Truthy(item.doubanid) =>
            \E j \in 1..Len(rows) : rows[j].doubanid = item.doubanid

\* C30: a payload history row is skipped only if the table has a row with
\* the same TMDB id and season (without TMDB id: the same Douban id), so
\* after the copy every payload row has such a row, whatever the order of
\* the payload and also for a row whose season is 0 or absent
C30_SkippedOnlyIfPresent ==
    HistoryCopied =>
        \A i \in 1..Len(mg_last.data) :
            HasHistoryRow(mg_sub_history, mg_last.data[i])

\* C30: the same for the payload rows that have a season, or no TMDB id
C30_WithSeason ==
    HistoryCopied =>
        \A i \in 1..Len(mg_last.data) :
            (mg_last.data[i].season # 0 \/ mg_last.data[i].tmdbid = 0) =>
                HasHistoryRow(mg_sub_history, mg_last.data[i])

\* C30: the row of season 0 was skipped because the row of season 1 of the
\* same TMDB id, which precedes it in the payload, had been copied
C30_SeasonZeroSkipped ==
    /\ HistoryCopied
    /\ mg_last.before = <<>>
    /\ mg_last.data = <<SubItem(1, NoneVal, 1), SubItem(1, NoneVal, 0)>>
    /\ Len(mg_sub_history) = 1
    /\ mg_sub_history[1].season = 1

\* C30: with the same two rows in the other order both were copied
C30_OtherOrderCopied ==
    /\ HistoryCopied
    /\ mg_last.before = <<>>
    /\ mg_last.data = <<SubItem(1, NoneVal, 0), SubItem(1, NoneVal, 1)>>
    /\ Len(mg_sub_history) = 2

====
